---- MODULE Spec2Model ----
(***************************************************************************)
(* A model of the ACRFD API (bcgov/nrts-prc-api): the tag-redaction query  *)
(* of api/helpers/utils.js, the publish / unPublish / delete helpers of    *)
(* api/helpers/actions.js with the Document routes, the CommentPeriod /    *)
(* Decision create and update routes, the bearer-token verification of     *)
(* api/helpers/auth.js, the Feature refresh (updateApplication) of         *)
(* api/helpers/ttlsUtils.js, the synchronization job of                    *)
(* seed/shapesMigration/updateShapes.js, paging and avScan of utils.js,    *)
(* the file-number search route, and the geometry migration script.        *)
(*                                                                         *)
(* Each part has its own specification over its own variables; the other   *)
(* variables rest at their idle values.                                    *)
(***************************************************************************)
EXTENDS Integers, Sequences, FiniteSets, TLC

VARIABLES
  store,      \* the records of one collection, in insertion order
  last,       \* what the last publish / unPublish / delete call did
  qArgs,      \* the arguments of the last runDataQuery call
  qResult,    \* the records the last runDataQuery call resolved with
  cpStore,    \* the CommentPeriod and Decision records, in insertion order
  cpLast,     \* the last create / update request on them and its answer
  authReq,    \* the request verifyToken is called with, and the configuration
  authPc,     \* where the verifyToken call stands
  authOut,    \* what the verifyToken call has done so far
  features,   \* the Feature collection, in insertion order
  featureIds, \* the number of Feature identifiers handed out so far
  appMeta,    \* per Application: whether its registry fields were persisted
  refresh,    \* per updateApplication invocation: where it stands
  apps,       \* the Application collection the synchronization job works on
  sync,       \* the synchronization job: where it stands and what it did
  page,       \* one listing request: its paging arguments and what came of them
  scan,       \* one avScan call: the daemon's answers and what the call did
  search,     \* one crown-land-file-number search request
  migration,  \* the features collection under the geometry migration script
  idsFetch,   \* the getAllApplicationIDs call: pages requested, identifiers gathered
  detail      \* the getApplicationByDispositionID call: the registry record and the result

storeVars == <<store, last, qArgs, qResult>>

cpVars == <<cpStore, cpLast>>

authVars == <<authReq, authPc, authOut>>

refreshVars == <<features, featureIds, appMeta, refresh>>

syncVars == <<apps, sync>>

\* the parts added to the API model: the job and the stand-alone helpers
otherVars == <<syncVars, page, scan, search, migration, idsFetch, detail>>

\* the parts of the API proper
coreVars == <<storeVars, cpVars, authVars, refreshVars>>

vars == <<store, last, qArgs, qResult, cpStore, cpLast, authReq, authPc, authOut,
          features, featureIds, appMeta, refresh, apps, sync, page, scan, search, migration, idsFetch, detail>>

----------------------------------------------------------------------------
(* Bounds                                                                  *)

\* number of records in the collection that runDataQuery reads
NumRecords == 2

\* longest tag-group list a record starts with under the actions
MaxTags == 3

\* number of CommentPeriod / Decision records the create route may add
MaxCreated == 3

\* number of Features stored before a refresh starts
MaxOld == 2

\* number of parcels the registry returns for one application
MaxParcels == 2

\* number of Applications stored behind the long-retired ones when the
\* synchronization job starts
MaxApps == 2

\* largest of the small page sizes and page numbers of a listing request
MaxPage == 2

\* number of avScan calls made one after the other
MaxScans == 2

\* number of dispositions a file-number search returns
MaxDisps == 2

\* number of Features in the collection the migration script runs on
MaxFeatures == 2

----------------------------------------------------------------------------
(* Records and tag-groups                                                  *)

Roles == {"public", "sysadmin"}

\* a tag-group is a list of role strings
TagGroups == {<<>>, <<"public">>, <<"sysadmin">>, <<"public", "sysadmin">>}

\* the tag-group lists of the stored fixtures, and some around them
FixtureTags ==
  { <<>>,
    <<<<"public">>>>,
    <<<<"sysadmin">>>>,
    <<<<"public">>, <<"sysadmin">>>>,
    <<<<"sysadmin">>, <<"public">>>>,
    <<<<"public", "sysadmin">>>>,
    <<<<>>>>,
    <<<<"sysadmin">>, <<"public", "sysadmin">>>> }

SeqsUpTo(S, n) == UNION { [1..k -> S] : k \in 0..n }

NoRecord == [_id |-> 0, tags |-> <<>>, isDeleted |-> FALSE]

Range(s) == { s[i] : i \in DOMAIN s }

\* no publish / unPublish / delete request yet
NoLast == [op |-> "none", objId |-> 0, pre |-> NoRecord, outcome |-> "none",
           code |-> 0, message |-> "", saveCalled |-> FALSE,
           status |-> 0, body |-> NoRecord, written |-> FALSE]

\* no runDataQuery call yet
NoArgs == [role |-> {}, query |-> [isDeleted |-> FALSE, _id |-> 0],
           skip |-> 0, limit |-> 0, called |-> FALSE]

----------------------------------------------------------------------------
(* The idle values of each part                                            *)

NoCpRequest == [op |-> "none", kind |-> "", objId |-> 0, name |-> "",
                hasTags |-> FALSE, tags |-> <<>>, status |-> 0]

IdleCp == cpStore = <<>> /\ cpLast = NoCpRequest

NoAuthReq == [header |-> "none", keycloak |-> FALSE, decodable |-> FALSE,
              keyFound |-> FALSE, verifyOk |-> FALSE,
              scopesIsArray |-> FALSE, scopes |-> <<>>,
              hasRealmAccess |-> FALSE, hasRoles |-> FALSE, roles |-> <<>>,
              iss |-> "none"]

NoAuthOut == [auth_payload |-> FALSE, status |-> 0, message |-> "",
              callbacks |-> 0, callbackArg |-> "none", thrown |-> FALSE]

IdleAuth == authReq = NoAuthReq /\ authPc = "idle" /\ authOut = NoAuthOut

\* the Applications, by identifier, and the updateApplication invocations
Apps == {1, 2}

Procs == {1, 2}

NoRefresh == [pc |-> "idle", app |-> 0, found |-> FALSE, parcels |-> <<>>,
              idx |-> 0, old |-> <<>>, outcome |-> "none", failed |-> "none"]

IdleRefresh ==
  /\ features = <<>>
  /\ featureIds = 0
  /\ appMeta = [a \in Apps |-> "stale"]
  /\ refresh = [p \in Procs |-> NoRefresh]

\* the synchronization job before it starts
NoSync == [pc |-> "idle", toUnpublish |-> <<>>, calls |-> <<>>,
           recent |-> {}, toUpdate |-> <<>>, idx |-> 0, rerun |-> FALSE,
           failed |-> "none", logged |-> FALSE, exit |-> "none",
           jwt_login |-> 0, jwt_expiry |-> 0, age |-> 0,
           checks |-> <<>>, refreshed |-> <<>>]

NoApps == [filler |-> 0, recs |-> <<>>]

IdleSync == apps = NoApps /\ sync = NoSync

NoPage == [pc |-> "idle", pageSize |-> [given |-> FALSE, value |-> 0],
           pageNum |-> [given |-> FALSE, value |-> 0],
           params |-> [hasSkip |-> FALSE, skip |-> 0, hasLimit |-> FALSE, limit |-> 0],
           total |-> 0, returned |-> 0]

IdlePage == page = NoPage

NoScan == [pc |-> "idle", buffer |-> "", pingErr |-> "", scanErr |-> FALSE,
           malicious |-> "", pings |-> 0, scans |-> 0, result |-> "none",
           calls |-> 0]

IdleScan == scan = NoScan

NoSearch == [pc |-> "idle", accessToken |-> "", loginError |-> [code |-> 0, message |-> ""],
             dispositions |-> <<>>, trace |-> <<>>, calls |-> <<>>, pending |-> 0,
             allApps |-> <<>>, status |-> 0, body |-> <<>>,
             error |-> [code |-> 0, message |-> ""], responses |-> 0]

IdleSearch == search = NoSearch

NoMigration == [pc |-> "idle", features |-> <<>>, original |-> <<>>, afterFirst |-> <<>>,
                cursor |-> <<>>, idx |-> 0, run |-> 0]

IdleMigration == migration = NoMigration

NoIdsFetch == [pc |-> "idle", registry |-> <<>>, totalRowCount |-> 0, pageNumber |-> 0,
               requested |-> <<>>, applicationIDs |-> <<>>, failed |-> FALSE,
               outcome |-> "none", value |-> <<>>]

IdleIdsFetch == idsFetch = NoIdsFetch

NoDetail == [pc |-> "idle", obj |-> [interestParcels |-> <<>>, interestedParties |-> <<>>],
             parcels |-> <<>>, areaHectares |-> 0, interestedParties |-> <<>>]

IdleDetail == detail = NoDetail

IdleOthers == IdleSync /\ IdlePage /\ IdleScan /\ IdleSearch /\ IdleMigration /\ IdleIdsFetch /\ IdleDetail

IdleStore == store = <<>> /\ last = NoLast /\ qArgs = NoArgs /\ qResult = <<>>

IdleCore == IdleStore /\ IdleCp /\ IdleAuth /\ IdleRefresh

----------------------------------------------------------------------------
(* api/helpers/utils.js : runDataQuery                                     *)

MAX_LIMIT == 1000

\* { $setIsSubset: ['$$fieldTag', role] }
setIsSubset(fieldTag, role) == Range(fieldTag) \subseteq role

\* the mutant: the subset test the wrong way round
RedactKeepsSuperset(tags, role) ==
  \E i \in DOMAIN tags : role \subseteq Range(tags[i])

\* $redact: keep the document iff $anyElementTrue of the $map over its tags
RedactKeeps(tags, role) ==
  \E i \in DOMAIN tags : setIsSubset(tags[i], role)

\* $match: the query carries the soft-delete exclusion and, on an id route,
\* the identifier (0: no identifier in the query)
Matches(r, query) ==
  /\ r.isDeleted = query.isDeleted
  /\ query._id # 0 => r._id = query._id

\* $project: the fields every result carries
Project(r) == [_id |-> r._id, tags |-> r.tags]

\* { $skip: skip || 0 }, { $limit: limit || MAX_LIMIT }
SkipLimit(s, skip, limit) ==
  LET sk == IF skip = 0 THEN 0 ELSE skip
      lim == IF limit = 0 THEN MAX_LIMIT ELSE limit
      from == sk + 1
      to == IF sk + lim < Len(s) THEN sk + lim ELSE Len(s)
  IN  SubSeq(s, from, to)

Aggregate(recs, role, query, skip, limit) ==
  LET kept == SelectSeq(recs, LAMBDA r : Matches(r, query) /\ RedactKeeps(r.tags, role))
      projected == [i \in DOMAIN kept |-> Project(kept[i])]
  IN  SkipLimit(projected, skip, limit)

Queries == [isDeleted : {FALSE}, _id : 0..NumRecords]

runDataQuery(role, query, skip, limit) ==
  /\ qArgs' = [role |-> role, query |-> query, skip |-> skip, limit |-> limit,
               called |-> TRUE]
  /\ qResult' = Aggregate(store, role, query, skip, limit)
  /\ UNCHANGED <<store, last, cpVars, authVars, refreshVars, otherVars>>

Query ==
  \E role \in SUBSET Roles, query \in Queries, skip \in 0..1, limit \in 0..1 :
    runDataQuery(role, query, skip, limit)

QueryRecords ==
  { s \in [1..NumRecords -> [_id : 1..NumRecords, tags : FixtureTags, isDeleted : BOOLEAN]] :
      \A i \in 1..NumRecords : s[i]._id = i }

InitQuery ==
  /\ store \in QueryRecords
  /\ last = NoLast
  /\ qArgs = NoArgs
  /\ qResult = <<>>
  /\ IdleCp
  /\ IdleAuth
  /\ IdleRefresh
  /\ IdleOthers

SpecQuery == InitQuery /\ [][Query]_vars

----------------------------------------------------------------------------
(* api/helpers/actions.js : publish, isPublished, unPublish, delete        *)

\* _.isEqual(item, ['public'])
IsPublicGroup(item) == item = <<"public">>

isPublished(o) == \E i \in DOMAIN o.tags : IsPublicGroup(o.tags[i])

\* _.remove(o.tags, item => _.isEqual(item, ['public'])): what is left
WithoutPublic(tags) == SelectSeq(tags, LAMBDA item : ~IsPublicGroup(item))

\* what one helper call did: the object as the call left it in memory,
\* whether o.save() was called, how the promise settled and with what error
Settled(o, saveCalled, outcome, code, message) ==
  [o |-> o, saveCalled |-> saveCalled, outcome |-> outcome, code |-> code,
   message |-> message]

\* o.save().then(resolve, err => reject({ code: 400, message: err.message }))
SaveThen(o, saveOk) ==
  IF saveOk THEN Settled(o, TRUE, "resolve", 0, "")
  ELSE Settled(o, TRUE, "reject", 400, "save failed")

\* the mutant: publish without the already-published check
publishUnchecked(o, saveOk) ==
  SaveThen([o EXCEPT !.tags = Append(@, <<"public">>)], saveOk)

publish(o, saveOk) ==
  IF isPublished(o)
  THEN Settled(o, FALSE, "reject", 409, "Object already published")
  ELSE SaveThen([o EXCEPT !.tags = Append(@, <<"public">>)], saveOk)

\* the mutant: only the first [public] group is removed
RemoveFirstPublic(tags) ==
  IF \E i \in DOMAIN tags : IsPublicGroup(tags[i])
  THEN LET i == CHOOSE k \in DOMAIN tags :
                  IsPublicGroup(tags[k]) /\ \A j \in 1..(k-1) : ~IsPublicGroup(tags[j])
       IN  SubSeq(tags, 1, i - 1) \o SubSeq(tags, i + 1, Len(tags))
  ELSE tags

unPublishFirstOnly(o, saveOk) ==
  IF ~isPublished(o)
  THEN Settled(o, FALSE, "reject", 409, "Object already unpublished")
  ELSE SaveThen([o EXCEPT !.tags = RemoveFirstPublic(@)], saveOk)

unPublish(o, saveOk) ==
  LET exists == SelectSeq(o.tags, IsPublicGroup)
      removed == [o EXCEPT !.tags = WithoutPublic(@)]
  IN  IF Len(exists) = 0
      THEN Settled(removed, FALSE, "reject", 409, "Object already unpublished")
      ELSE SaveThen(removed, saveOk)

\* the mutant: delete refuses a record that is not published, as unPublish does
deleteViaUnPublish(o, saveOk) ==
  IF ~isPublished(o)
  THEN Settled(o, FALSE, "reject", 409, "Object already unpublished")
  ELSE SaveThen([o EXCEPT !.tags = WithoutPublic(@), !.isDeleted = TRUE], saveOk)

\* the mutant: delete clears the whole tag-group list
deleteClearingTags(o, saveOk) ==
  SaveThen([o EXCEPT !.tags = <<>>, !.isDeleted = TRUE], saveOk)

delete(o, saveOk) ==
  SaveThen([o EXCEPT !.tags = WithoutPublic(@), !.isDeleted = TRUE], saveOk)

\* sendResponse: code || (object && object.code) || 500
sendResponse(code, objectCode) ==
  IF code # 0 THEN code ELSE IF objectCode # 0 THEN objectCode ELSE 500

----------------------------------------------------------------------------
(* api/controllers/document.js : protectedPublish, protectedUnPublish, and *)
(* the delete route of the same shape                                      *)

\* Model.findOne({_id: objId}): the position of the record, 0 when none
findOne(objId) ==
  IF \E i \in DOMAIN store : store[i]._id = objId
  THEN CHOOSE i \in DOMAIN store : store[i]._id = objId
  ELSE 0

\* the route around one helper call r on the record at position i
Route(op, objId, i, r) ==
  /\ store' = IF r.saveCalled /\ r.outcome = "resolve"
              THEN [store EXCEPT ![i] = r.o] ELSE store
  /\ last' = [op |-> op, objId |-> objId, pre |-> store[i],
              outcome |-> r.outcome, code |-> r.code, message |-> r.message,
              saveCalled |-> r.saveCalled,
              status |-> IF r.outcome = "resolve" THEN sendResponse(200, 0)
                         ELSE sendResponse(r.code, r.code),
              body |-> IF r.outcome = "resolve" THEN r.o ELSE NoRecord]
  /\ UNCHANGED <<qArgs, qResult, cpVars, authVars, refreshVars, otherVars>>

\* sendResponse(res, 404, {})
NotFound(op, objId) ==
  /\ last' = [NoLast EXCEPT !.op = op, !.objId = objId,
                            !.status = sendResponse(404, 0)]
  /\ UNCHANGED <<store, qArgs, qResult, cpVars, authVars, refreshVars, otherVars>>

protectedPublish(objId, saveOk) ==
  LET i == findOne(objId)
  IN  IF i # 0 THEN Route("publish", objId, i, publish(store[i], saveOk))
      ELSE NotFound("publish", objId)

protectedUnPublish(objId, saveOk) ==
  LET i == findOne(objId)
  IN  IF i # 0 THEN Route("unPublish", objId, i, unPublish(store[i], saveOk))
      ELSE NotFound("unPublish", objId)

protectedDelete(objId, saveOk) ==
  LET i == findOne(objId)
  IN  IF i # 0 THEN Route("delete", objId, i, delete(store[i], saveOk))
      ELSE NotFound("delete", objId)

\* the mutant: findOneAndUpdate with upsert, a record is made when none is found
protectedPutUpsert(objId, fileOk) ==
  LET i == findOne(objId)
      made == [NoRecord EXCEPT !._id = objId]
  IN  /\ store' = IF fileOk /\ i = 0 THEN Append(store, made) ELSE store
      /\ last' = [NoLast EXCEPT !.op = "update", !.objId = objId,
                                !.status = IF fileOk THEN sendResponse(200, 0)
                                           ELSE sendResponse(400, 0),
                                !.body = IF fileOk /\ i # 0 THEN store[i]
                                         ELSE IF fileOk THEN made ELSE NoRecord,
                                !.written = fileOk]
      /\ UNCHANGED <<qArgs, qResult, cpVars, authVars, refreshVars, otherVars>>

\* protectedPut: the upload is written to disk first (400 when that fails),
\* then findOneAndUpdate with upsert: false, the tags taken out of the
\* update; the fields of the model are not among those it sets.  written
\* tells whether the request has put a file into the upload directory
protectedPut(objId, fileOk) ==
  LET i == findOne(objId)
  IN  /\ store' = store
      /\ last' = IF ~fileOk
                 THEN [NoLast EXCEPT !.op = "update", !.objId = objId,
                                     !.message = "write error",
                                     !.status = sendResponse(400, 0)]
                 ELSE IF i # 0
                 THEN [NoLast EXCEPT !.op = "update", !.objId = objId,
                                     !.pre = store[i], !.body = store[i],
                                     !.status = sendResponse(200, 0),
                                     !.written = TRUE]
                 ELSE [NoLast EXCEPT !.op = "update", !.objId = objId,
                                     !.status = sendResponse(404, 0),
                                     !.written = TRUE]
      /\ UNCHANGED <<qArgs, qResult, cpVars, authVars, refreshVars, otherVars>>

\* the identifiers a request names: the stored record's, and one of no record
ObjIds == {1, 2}

Update == \E objId \in ObjIds, fileOk \in BOOLEAN : protectedPut(objId, fileOk)

Publish == \E objId \in ObjIds, saveOk \in BOOLEAN : protectedPublish(objId, saveOk)

UnPublish == \E objId \in ObjIds, saveOk \in BOOLEAN : protectedUnPublish(objId, saveOk)

Delete == \E objId \in ObjIds, saveOk \in BOOLEAN : protectedDelete(objId, saveOk)

InitActions ==
  /\ store \in { <<r>> : r \in [_id : {1}, tags : SeqsUpTo(TagGroups, MaxTags),
                                isDeleted : BOOLEAN] }
  /\ last = NoLast
  /\ qArgs = NoArgs
  /\ qResult = <<>>
  /\ IdleCp
  /\ IdleAuth
  /\ IdleRefresh
  /\ IdleOthers

NextActions == Publish \/ UnPublish \/ Delete \/ Update

SpecActions == InitActions /\ [][NextActions]_vars

\* the same requests on a record that has not been deleted yet
InitLifecycle == InitActions /\ \A i \in DOMAIN store : ~store[i].isDeleted

SpecLifecycle == InitLifecycle /\ [][NextActions]_vars

----------------------------------------------------------------------------
(* api/controllers/commentperiod.js, decision.js : protectedPost and       *)
(* protectedPut, as the specification and the route tests describe them    *)

Kinds == {"CommentPeriod", "Decision"}

Names == {"Victoria", "hacker_man"}

\* the `tags` values a request body may carry
BodyTags == { <<>>, <<<<"public">>>>, <<<<"public">>, <<"sysadmin">>>> }

\* the mutant: the create route keeps the tags of the request body
CreatedTagsFromBody(hasTags, tags) == IF hasTags THEN tags ELSE <<<<"sysadmin">>>>

\* create: the tag-groups are forced to sysadmin-only, whatever the body says
CreatedTags(hasTags, tags) == <<<<"sysadmin">>>>

\* the mutant: the update route writes the tags of the request body
UpdatedTagsFromBody(old, hasTags, tags) == IF hasTags THEN tags ELSE old

\* update: `tags` is stripped from the body, so the stored tags stay
UpdatedTags(old, hasTags, tags) == old

cpProtectedPost(kind, name, hasTags, tags) ==
  /\ Len(cpStore) < MaxCreated
  /\ cpStore' = Append(cpStore,
        [_id |-> Len(cpStore) + 1, kind |-> kind, name |-> name,
         tags |-> CreatedTags(hasTags, tags),
         internalTags |-> IF kind = "CommentPeriod" THEN <<<<"sysadmin">>>> ELSE <<>>])
  /\ cpLast' = [op |-> "post", kind |-> kind, objId |-> Len(cpStore) + 1,
                name |-> name, hasTags |-> hasTags, tags |-> tags, status |-> 200]
  /\ UNCHANGED <<storeVars, authVars, refreshVars, otherVars>>

cpProtectedPut(kind, objId, name, hasTags, tags) ==
  /\ IF \E i \in DOMAIN cpStore : cpStore[i]._id = objId /\ cpStore[i].kind = kind
     THEN cpStore' = [cpStore EXCEPT ![objId] =
                        [@ EXCEPT !.name = name,
                                  !.tags = UpdatedTags(@, hasTags, tags)]]
     ELSE cpStore' = cpStore
  /\ cpLast' = [op |-> "put", kind |-> kind, objId |-> objId, name |-> name,
                hasTags |-> hasTags, tags |-> tags,
                status |-> IF \E i \in DOMAIN cpStore :
                                cpStore[i]._id = objId /\ cpStore[i].kind = kind
                           THEN 200 ELSE 404]
  /\ UNCHANGED <<storeVars, authVars, refreshVars, otherVars>>

CpPost ==
  \E kind \in Kinds, name \in Names, hasTags \in BOOLEAN, tags \in BodyTags :
    /\ ~hasTags => tags = <<>>
    /\ cpProtectedPost(kind, name, hasTags, tags)

CpPut ==
  \E kind \in Kinds, objId \in 1..(MaxCreated + 1), name \in Names,
     hasTags \in BOOLEAN, tags \in BodyTags :
    /\ ~hasTags => tags = <<>>
    /\ cpProtectedPut(kind, objId, name, hasTags, tags)

InitCp == IdleStore /\ IdleCp /\ IdleAuth /\ IdleRefresh /\ IdleOthers

NextCp == CpPost \/ CpPut

SpecCp == InitCp /\ [][NextCp]_vars

----------------------------------------------------------------------------
(* api/helpers/auth.js : verifyToken, _verifySecret                        *)

\* process.env.SSO_ISSUER || 'https://dev.oidc.gov.bc.ca/auth/realms/prc'
ISSUER == "https://dev.oidc.gov.bc.ca/auth/realms/prc"

Issuers == {ISSUER, "https://elsewhere/auth/realms/prc"}

\* the Authorization header: absent, without the 'Bearer ' prefix, or with it
Headers == {"none", "other", "bearer"}

\* req.swagger.operation['x-security-scopes'] when it is a list
ScopeLists == {<<>>, <<"sysadmin">>, <<"sysadmin", "public">>}

\* decodedToken.realm_access.roles when it is a list
RoleLists == {<<>>, <<"public">>, <<"sysadmin">>, <<"public", "sysadmin">>}

\* the requests: a token that verifies is one that decodes, and only a token
\* that decodes carries claims
AuthRequests ==
  { r \in [header : Headers, keycloak : BOOLEAN, decodable : BOOLEAN,
           keyFound : BOOLEAN, verifyOk : BOOLEAN,
           scopesIsArray : BOOLEAN, scopes : ScopeLists,
           hasRealmAccess : BOOLEAN, hasRoles : BOOLEAN, roles : RoleLists,
           iss : Issuers] :
      /\ r.verifyOk => r.decodable
      /\ ~r.scopesIsArray => r.scopes = <<>>
      /\ r.hasRoles => r.hasRealmAccess
      /\ ~r.hasRoles => r.roles = <<>>
      /\ ~r.decodable => (~r.hasRealmAccess /\ r.iss = ISSUER)
      /\ r.header # "bearer" => (~r.decodable /\ ~r.keyFound)
      /\ ~r.keycloak => ~r.keyFound }

\* callback(sendError()): a 403 with the fixed message, handed to the callback
Denied(out) ==
  [out EXCEPT !.status = 403, !.message = "Error: Access Denied",
              !.callbacks = @ + 1, !.callbackArg = "denied"]

\* an exception leaves the call: no response is written, no callback made
Thrown(out) == [out EXCEPT !.thrown = TRUE]

\* currentScopes.some(r => decodedToken.realm_access.roles.indexOf(r) >= 0)
roleMatch(r) == \E i \in DOMAIN r.scopes : r.scopes[i] \in Range(r.roles)

issuerMatch(r) == r.iss = ISSUER

\* the mutant: a role match or an issuer match is enough
verifySecretEither(r, out) ==
  IF r.verifyOk /\ r.scopesIsArray
  THEN IF ~r.hasRealmAccess THEN Thrown(out)
       ELSE IF r.hasRoles
            THEN IF roleMatch(r) \/ issuerMatch(r)
                 THEN [out EXCEPT !.auth_payload = TRUE, !.callbacks = @ + 1,
                                  !.callbackArg = "null"]
                 ELSE Denied(out)
            ELSE Denied(out)
  ELSE Denied(out)

\* the callback of jwt.verify
verifySecret(r, out) ==
  IF r.verifyOk /\ r.scopesIsArray
  THEN \* decodedToken.realm_access.roles is read here
       IF ~r.hasRealmAccess THEN Thrown(out)
       ELSE IF r.hasRoles
            THEN IF roleMatch(r) /\ issuerMatch(r)
                 THEN [out EXCEPT !.auth_payload = TRUE, !.callbacks = @ + 1,
                                  !.callbackArg = "null"]
                 ELSE Denied(out)
            ELSE Denied(out)
  ELSE Denied(out)

\* a request arrives
AuthRequest ==
  /\ authPc = "idle"
  /\ authReq' \in AuthRequests
  /\ authPc' = "called"
  /\ authOut' = NoAuthOut
  /\ UNCHANGED <<storeVars, cpVars, refreshVars, otherVars>>

\* verifyToken up to its first asynchronous call
verifyToken ==
  /\ authPc = "called"
  /\ IF authReq.header = "bearer"
     THEN IF authReq.keycloak
          THEN \* jwt.decode(tokenString, { complete: true }).header.kid
               IF authReq.decodable
               THEN authPc' = "getSigningKey" /\ authOut' = authOut
               ELSE authPc' = "done" /\ authOut' = Thrown(authOut)
          ELSE authPc' = "done" /\ authOut' = verifySecret(authReq, authOut)
     ELSE authPc' = "done" /\ authOut' = Denied(authOut)
  /\ UNCHANGED <<authReq, storeVars, cpVars, refreshVars, otherVars>>

\* the callback of client.getSigningKey
getSigningKey ==
  /\ authPc = "getSigningKey"
  /\ authPc' = "done"
  /\ authOut' = IF authReq.keyFound THEN verifySecret(authReq, authOut)
                ELSE Denied(authOut)
  /\ UNCHANGED <<authReq, storeVars, cpVars, refreshVars, otherVars>>

InitAuth == IdleStore /\ IdleCp /\ IdleAuth /\ IdleRefresh /\ IdleOthers

NextAuth == AuthRequest \/ verifyToken \/ getSigningKey

SpecAuth == InitAuth /\ [][NextAuth]_vars

----------------------------------------------------------------------------
(* api/helpers/ttlsUtils.js : updateApplication and its steps              *)

Parcels == {"p1", "p2"}

\* the Features of one Application, in stored order
FeaturesOf(fs, app) == SelectSeq(fs, LAMBDA f : f.applicationID = app)

\* featureModel.deleteOne({ applicationID }): the first match goes, if any
deleteOne(fs, app) ==
  IF \E i \in DOMAIN fs : fs[i].applicationID = app
  THEN LET i == CHOOSE k \in DOMAIN fs :
                  /\ fs[k].applicationID = app
                  /\ \A j \in 1..(k - 1) : fs[j].applicationID # app
       IN  SubSeq(fs, 1, i - 1) \o SubSeq(fs, i + 1, Len(fs))
  ELSE fs

\* the mutant: the Feature is stored without its owning Application
newFeatureUnowned(id, app, parcel) ==
  [_id |-> id, applicationID |-> 0, parcel |-> parcel,
   tags |-> <<<<"sysadmin">>, <<"public">>>>]

\* saveFeature: feature.applicationID and feature.tags as it sets them
newFeature(id, app, parcel) ==
  [_id |-> id, applicationID |-> app, parcel |-> parcel,
   tags |-> <<<<"sysadmin">>, <<"public">>>>]

Settle(r, outcome, failed) ==
  [r EXCEPT !.pc = "settled", !.outcome = outcome, !.failed = failed]

\* updateApplication(applicationToUpdate) is called
updateApplication(p) ==
  /\ refresh[p].pc = "idle"
  /\ \E app \in Apps :
       refresh' = [refresh EXCEPT ![p] =
                     [NoRefresh EXCEPT !.pc = "loginWebADE", !.app = app,
                                       !.old = FeaturesOf(features, app),
                                       !.outcome = "pending"]]
  /\ UNCHANGED <<features, featureIds, appMeta, storeVars, cpVars, authVars, otherVars>>

\* this.loginWebADE() settles
loginWebADE(p) ==
  /\ refresh[p].pc = "loginWebADE"
  /\ \E ok \in BOOLEAN :
       refresh' = [refresh EXCEPT ![p] =
                     IF ok THEN [@ EXCEPT !.pc = "getApplicationByDispositionID"]
                     ELSE Settle(@, "rejected", "loginWebADE")]
  /\ UNCHANGED <<features, featureIds, appMeta, storeVars, cpVars, authVars, otherVars>>

\* this.getApplicationByDispositionID(...) settles: with an error, with no
\* application, or with the application and its parcels
getApplicationByDispositionID(p) ==
  /\ refresh[p].pc = "getApplicationByDispositionID"
  /\ \/ refresh' = [refresh EXCEPT ![p] =
                      Settle(@, "rejected", "getApplicationByDispositionID")]
     \/ refresh' = [refresh EXCEPT ![p] = Settle(@, "resolved", "none")]
     \/ \E parcels \in SeqsUpTo(Parcels, MaxParcels) :
          refresh' = [refresh EXCEPT ![p] =
                        [@ EXCEPT !.pc = "deleteAllApplicationFeatures",
                                  !.found = TRUE, !.parcels = parcels]]
  /\ UNCHANGED <<features, featureIds, appMeta, storeVars, cpVars, authVars, otherVars>>

\* the mutant: the Application is updated right after the deletion
deleteThenMeta(p) ==
  /\ refresh[p].pc = "deleteAllApplicationFeatures"
  /\ features' = deleteOne(features, refresh[p].app)
  /\ refresh' = [refresh EXCEPT ![p] =
       [@ EXCEPT !.pc = "updateApplicationMeta", !.idx = 1]]
  /\ UNCHANGED <<featureIds, appMeta, storeVars, cpVars, authVars, otherVars>>

\* the mutant: the deletion waits while another invocation for the same
\* Application is between its own deletion and the end of its creations
deleteAllApplicationFeaturesLocked(p) ==
  /\ refresh[p].pc = "deleteAllApplicationFeatures"
  /\ \A q \in Procs \ {p} :
       ~(refresh[q].pc = "saveFeature" /\ refresh[q].app = refresh[p].app)
  /\ features' = deleteOne(features, refresh[p].app)
  /\ refresh' = [refresh EXCEPT ![p] =
       [@ EXCEPT !.pc = IF refresh[p].parcels = <<>> THEN "updateApplicationMeta"
                        ELSE "saveFeature",
                 !.idx = 1]]
  /\ UNCHANGED <<featureIds, appMeta, storeVars, cpVars, authVars, otherVars>>

\* the callback of featureModel.deleteOne; updateFeatures follows, which
\* goes on to updateApplicationMeta at once when there is no parcel
deleteAllApplicationFeatures(p) ==
  /\ refresh[p].pc = "deleteAllApplicationFeatures"
  /\ \E ok \in BOOLEAN :
       IF ok
       THEN /\ features' = deleteOne(features, refresh[p].app)
            /\ refresh' = [refresh EXCEPT ![p] =
                 [@ EXCEPT !.pc = IF refresh[p].parcels = <<>> THEN "updateApplicationMeta"
                                  ELSE "saveFeature",
                           !.idx = 1]]
       ELSE /\ features' = features
            /\ refresh' = [refresh EXCEPT ![p] =
                 Settle(@, "rejected", "deleteAllApplicationFeatures")]
  /\ UNCHANGED <<featureIds, appMeta, storeVars, cpVars, authVars, otherVars>>

\* the callback of featureModel.create for the next parcel; a rejection is
\* caught by nobody in updateFeatures, whose promise then never settles
saveFeature(p) ==
  /\ refresh[p].pc = "saveFeature"
  /\ \E ok \in BOOLEAN :
       IF ok
       THEN /\ features' = Append(features,
                 newFeature(featureIds + 1, refresh[p].app,
                            refresh[p].parcels[refresh[p].idx]))
            /\ featureIds' = featureIds + 1
            /\ refresh' = [refresh EXCEPT ![p] =
                 [@ EXCEPT !.idx = @ + 1,
                           !.pc = IF refresh[p].idx = Len(refresh[p].parcels)
                                  THEN "updateApplicationMeta" ELSE "saveFeature"]]
       ELSE /\ UNCHANGED <<features, featureIds>>
            /\ refresh' = [refresh EXCEPT ![p] =
                 [@ EXCEPT !.pc = "hung", !.failed = "saveFeature"]]
  /\ UNCHANGED <<appMeta, storeVars, cpVars, authVars, otherVars>>

\* the callback of ApplicationModel.findOneAndUpdate
updateApplicationMeta(p) ==
  /\ refresh[p].pc = "updateApplicationMeta"
  /\ \E ok \in BOOLEAN :
       IF ok
       THEN /\ appMeta' = [appMeta EXCEPT ![refresh[p].app] = "fresh"]
            /\ refresh' = [refresh EXCEPT ![p] = Settle(@, "resolved", "none")]
       ELSE /\ appMeta' = appMeta
            /\ refresh' = [refresh EXCEPT ![p] =
                 Settle(@, "rejected", "updateApplicationMeta")]
  /\ UNCHANGED <<features, featureIds, storeVars, cpVars, authVars, otherVars>>

\* the Features stored before the refresh: each owned by an Application and
\* made by an earlier refresh
OldFeatures ==
  { fs \in SeqsUpTo([_id : 1..MaxOld, applicationID : Apps, parcel : Parcels,
                     tags : {<<<<"sysadmin">>, <<"public">>>>}], MaxOld) :
      \A i \in DOMAIN fs : fs[i]._id = i }

InitRefresh ==
  /\ IdleStore /\ IdleCp /\ IdleAuth /\ IdleOthers
  /\ features \in OldFeatures
  /\ featureIds = Len(features)
  /\ appMeta = [a \in Apps |-> "stale"]
  /\ refresh = [p \in Procs |-> NoRefresh]

\* one invocation at a time
RefreshStep(p) ==
  \/ updateApplication(p)
  \/ loginWebADE(p)
  \/ getApplicationByDispositionID(p)
  \/ deleteAllApplicationFeatures(p)
  \/ saveFeature(p)
  \/ updateApplicationMeta(p)

NextRefresh == RefreshStep(1)

SpecRefresh == InitRefresh /\ [][NextRefresh]_vars

\* a callback that is due is run
SpecRefreshLive == SpecRefresh /\ WF_vars(NextRefresh)

\* two refresh requests for the same Application are in flight together:
\* nothing in updateApplication or in the refresh route holds one back
\* while the other runs; the registry answers both with the same parcels
RaceApp == CHOOSE a \in Apps : \A b \in Apps : a <= b

SameApplication ==
  /\ \A p \in Procs : refresh[p].app \in {0, RaceApp}
  /\ \A p, q \in Procs :
       refresh[p].found /\ refresh[q].found => refresh[p].parcels = refresh[q].parcels

InitRace ==
  /\ InitRefresh
  /\ \A i \in DOMAIN features : features[i].applicationID = RaceApp

RaceStep(p) == RefreshStep(p) /\ SameApplication'

NextRace == RaceStep(1) \/ RaceStep(2)

SpecRace == InitRace /\ [][NextRace]_vars

----------------------------------------------------------------------------
(* seed/shapesMigration/updateShapes.js : the synchronization job          *)

notSync == <<coreVars, page, scan, search, migration, idsFetch, detail>>

IdleButSync == IdleCore /\ IdlePage /\ IdleScan /\ IdleSearch /\ IdleMigration /\ IdleIdsFetch /\ IdleDetail

\* the roles of the account the job logs in with
JobRoles == {"sysadmin", "public"}

\* an Application retired long ago and unpublished by an earlier run
FillerApp(i) == [_id |-> 0 - i, tags |-> <<<<"sysadmin">>>>, retired |-> TRUE,
                 isDeleted |-> FALSE]

\* the Application collection in stored order: apps.filler long-retired,
\* unpublished Applications, then apps.recs
AllApps == [i \in 1..apps.filler |-> FillerApp(i)] \o apps.recs

\* status[eq] in retiredStatuses, statusHistoryEffectiveDate[until] six
\* months ago; deleted Applications are not listed
RetiredMatch(a) == a.retired /\ ~a.isDeleted

\* ?fields=tantalisID&isDeleted=false
NotDeletedMatch(a) == ~a.isDeleted

\* GET api/application with no pageNum: runDataQuery with skip and limit
\* undefined; retiredOnly tells which of the two queries is sent
listApplications(retiredOnly) ==
  SkipLimit(SelectSeq(AllApps,
              LAMBDA a : /\ IF retiredOnly THEN RetiredMatch(a) ELSE NotDeletedMatch(a)
                         /\ RedactKeeps(a.tags, JobRoles)), 0, 0)

\* the mutant: every retired Application is submitted
appsToUnpublishUnfiltered(data) == data

\* _.filter(data, app => Actions.isPublished(app))
appsToUnpublish(data) == SelectSeq(data, LAMBDA a : isPublished(a))

\* outcomes of one HTTP call as its callback sees them: a transport error
\* or a status other than 200, a 200 whose body JSON.parse refuses, a
\* well-formed 200
HttpOutcomes == {"error", "garbled", "ok"}

\* .catch of the main chain: defaultLog.error and process.exit(1)
Rejected(step) ==
  [sync EXCEPT !.pc = "ended", !.failed = step, !.logged = TRUE, !.exit = "1"]

\* an exception thrown in a request callback is caught by nobody: the
\* process dies of it
Crashed(step) ==
  [sync EXCEPT !.pc = "ended", !.failed = step, !.exit = "1"]

\* a promise of the chain that will never settle
Stalled(step) == [sync EXCEPT !.pc = "stalled", !.failed = step]

\* expires_in of a login response, in seconds
Lifetimes == {60, 120}

\* the seconds that may have passed between two readings of the clock
Elapsed == {0, 30, 90}

\* loginToACRFD on a 200 response: jwt_login is a new token, jwt_expiry its
\* expires_in, jwt_login_time is now (the token's age is 0)
LoggedIn(sy, expires_in) ==
  [sy EXCEPT !.jwt_login = @ + 1, !.jwt_expiry = expires_in, !.age = 0]

SyncStart ==
  /\ sync.pc = "idle"
  /\ sync' = [sync EXCEPT !.pc = "loginToACRFD"]
  /\ UNCHANGED <<apps, notSync>>

loginToACRFD ==
  /\ sync.pc = "loginToACRFD"
  /\ \/ sync' = Rejected("loginToACRFD")
     \/ sync' = Crashed("loginToACRFD")
     \/ \E expires_in \in Lifetimes :
          sync' = LoggedIn([sync EXCEPT !.pc = "getApplicationsToUnpublish"],
                           expires_in)
  /\ UNCHANGED <<apps, notSync>>

getApplicationsToUnpublish ==
  /\ sync.pc = "getApplicationsToUnpublish"
  /\ \E out \in HttpOutcomes :
       sync' = CASE out = "error" -> Rejected("getApplicationsToUnpublish")
                 [] out = "garbled" -> Crashed("getApplicationsToUnpublish")
                 [] OTHER ->
                      LET found == appsToUnpublish(listApplications(TRUE))
                      IN  [sync EXCEPT !.toUnpublish = found, !.idx = 1,
                                       !.pc = IF found = <<>> THEN "loginWebADE"
                                              ELSE "unpublishApplications"]
  /\ UNCHANGED <<apps, notSync>>

\* one PUT api/application/<id>/unpublish, and the route answering it
unpublishApplications ==
  /\ sync.pc = "unpublishApplications"
  /\ LET currentApp == sync.toUnpublish[sync.idx]
         known == \E k \in DOMAIN apps.recs : apps.recs[k]._id = currentApp._id
         i == IF known
              THEN CHOOSE k \in DOMAIN apps.recs : apps.recs[k]._id = currentApp._id
              ELSE 0
         stored == IF known THEN apps.recs[i] ELSE FillerApp(0 - currentApp._id)
         next == [sync EXCEPT !.idx = @ + 1,
                              !.pc = IF sync.idx = Len(sync.toUnpublish)
                                     THEN "loginWebADE" ELSE "unpublishApplications"]
     IN  \/ /\ sync' = Rejected("unpublishApplications")
            /\ apps' = apps
         \/ \E saveOk \in BOOLEAN, parses \in BOOLEAN :
              LET r == unPublish(stored, saveOk)
                  status == IF r.outcome = "resolve" THEN sendResponse(200, 0)
                            ELSE sendResponse(r.code, r.code)
                  call == [id |-> currentApp._id, status |-> status,
                           wasPublished |-> isPublished(stored)]
                  told == [next EXCEPT !.calls = Append(@, call)]
              IN  /\ apps' = IF status = 200 /\ known
                             THEN [apps EXCEPT !.recs[i] = r.o] ELSE apps
                  /\ sync' = IF status # 200
                             THEN [Rejected("unpublishApplications")
                                     EXCEPT !.calls = Append(@, call)]
                             ELSE IF parses THEN told
                             ELSE [Crashed("unpublishApplications")
                                     EXCEPT !.calls = Append(@, call)]
  /\ UNCHANGED notSync

\* TTLSUtils.loginWebADE(): every failure rejects
syncLoginWebADE ==
  /\ sync.pc = "loginWebADE"
  /\ \E ok \in BOOLEAN :
       sync' = IF ok THEN [sync EXCEPT !.pc = "getAllApplicationIDs"]
               ELSE Rejected("loginWebADE")
  /\ UNCHANGED <<apps, notSync>>

\* TTLSUtils.getAllApplicationIDs: a page that fails rejects a promise
\* nobody handles, and the promise returned never settles; what the runtime
\* does with the unhandled rejection is its choice: nothing, or killing
\* the process
syncGetAllApplicationIDs ==
  /\ sync.pc = "getAllApplicationIDs"
  /\ \/ \E recent \in SUBSET {a._id : a \in Range(apps.recs)} :
          sync' = [sync EXCEPT !.pc = "getAllACRFDApplicationIDs",
                               !.recent = recent]
     \/ sync' = Stalled("getAllApplicationIDs")
     \/ sync' = Crashed("getAllApplicationIDs")
  /\ UNCHANGED <<apps, notSync>>

\* the identifiers of a list, in a set given as the registry gave it
IdsAmong(list, recent) ==
  LET kept == SelectSeq(list, LAMBDA a : a._id \in recent)
  IN  [k \in DOMAIN kept |-> kept[k]._id]

\* getAllACRFDApplicationIDs, then the filter / map of the main chain; a
\* body that does not parse is logged and the promise left unsettled
getAllACRFDApplicationIDs ==
  /\ sync.pc = "getAllACRFDApplicationIDs"
  /\ \E out \in HttpOutcomes :
       sync' = CASE out = "error" -> Rejected("getAllACRFDApplicationIDs")
                 [] out = "garbled" -> Stalled("getAllACRFDApplicationIDs")
                 [] OTHER ->
                      LET ids == IdsAmong(listApplications(FALSE), sync.recent)
                      IN  [sync EXCEPT !.toUpdate = ids, !.idx = 1,
                                       !.pc = IF ids = <<>> THEN "done"
                                              ELSE "renewJWTLogin"]
  /\ UNCHANGED <<apps, notSync>>

\* the loop of the main chain, one Application after the other
AfterUpdate ==
  [sync EXCEPT !.idx = @ + 1,
               !.pc = IF sync.idx = Len(sync.toUpdate) THEN "done"
                      ELSE "renewJWTLogin"]

\* the seconds of lifetime the job wants a token to have left
RenewMargin == 60

\* the mutant: the token is renewed once it has expired
expiresSoonWhenExpired(duration, expiry) == duration > expiry

\* duration > jwt_expiry - 60
expiresSoon(duration, expiry) == duration > expiry - RenewMargin

\* renewJWTLogin: duration is the age of the token read off the clock; when
\* the token is about to expire, loginToACRFD(...).then(() => resolve())
\* with no rejection handler
renewJWTLogin ==
  /\ sync.pc = "renewJWTLogin"
  /\ \E passed \in Elapsed :
       LET duration == sync.age + passed
           check == [token |-> sync.jwt_login,
                     left |-> sync.jwt_expiry - duration,
                     renewed |-> expiresSoon(duration, sync.jwt_expiry)]
           go == [sync EXCEPT !.pc = "updateACRFDApplication", !.age = duration,
                              !.checks = Append(@, check)]
       IN  IF expiresSoon(duration, sync.jwt_expiry)
           THEN \/ sync' = Stalled("renewJWTLogin")
                \/ sync' = Crashed("renewJWTLogin")
                \/ \E expires_in \in Lifetimes : sync' = LoggedIn(go, expires_in)
           ELSE sync' = go
  /\ UNCHANGED <<apps, notSync>>

\* PUT api/application/<id>/refresh; a body that does not parse is logged
\* and the promise left unsettled
updateACRFDApplication ==
  /\ sync.pc = "updateACRFDApplication"
  /\ LET call == [id |-> sync.toUpdate[sync.idx], token |-> sync.jwt_login]
     IN  \E out \in HttpOutcomes :
           sync' = [(CASE out = "error" -> Rejected("updateACRFDApplication")
                       [] out = "garbled" -> Stalled("updateACRFDApplication")
                       [] OTHER -> AfterUpdate)
                      EXCEPT !.refreshed = Append(@, call)]
  /\ UNCHANGED <<apps, notSync>>

\* 'Done!' is logged and the process ends
SyncDone ==
  /\ sync.pc = "done"
  /\ sync' = [sync EXCEPT !.pc = "ended", !.exit = "0"]
  /\ UNCHANGED <<apps, notSync>>

\* nothing is left to run while a promise of the chain never settles: the
\* process ends, and .catch has not run
EventLoopDrains ==
  /\ sync.pc = "stalled"
  /\ sync' = [sync EXCEPT !.pc = "ended", !.exit = "0"]
  /\ UNCHANGED <<apps, notSync>>

\* the next scheduled run, on the collection as the last run left it
SyncRerun ==
  /\ sync.pc = "ended"
  /\ sync' = [NoSync EXCEPT !.pc = "loginToACRFD", !.rerun = TRUE]
  /\ UNCHANGED <<apps, notSync>>

\* Applications with tag-groups [[sysadmin]] or [[sysadmin],[public]]
SyncApps ==
  { s \in SeqsUpTo([_id : 1..MaxApps,
                    tags : {<<<<"sysadmin">>>>, <<<<"sysadmin">>, <<"public">>>>},
                    retired : BOOLEAN, isDeleted : BOOLEAN], MaxApps) :
      \A i \in DOMAIN s : s[i]._id = i }

InitSync ==
  /\ IdleButSync
  /\ apps \in [filler : {0, MAX_LIMIT - 1, MAX_LIMIT}, recs : SyncApps]
  /\ sync = NoSync

NextSync ==
  \/ SyncStart
  \/ loginToACRFD
  \/ getApplicationsToUnpublish
  \/ unpublishApplications
  \/ syncLoginWebADE
  \/ syncGetAllApplicationIDs
  \/ getAllACRFDApplicationIDs
  \/ renewJWTLogin
  \/ updateACRFDApplication
  \/ SyncDone
  \/ EventLoopDrains
  \/ SyncRerun

SpecSync == InitSync /\ [][NextSync]_vars

\* the process runs as long as it has something to run
SpecSyncLive == SpecSync /\ WF_vars(NextSync)

----------------------------------------------------------------------------
(* api/helpers/utils.js : getSkipLimitParameters, and the window of        *)
(* runDataQuery                                                            *)

notPage == <<coreVars, syncVars, scan, search, migration, idsFetch, detail>>

IdleButPage == IdleCore /\ IdleSync /\ IdleScan /\ IdleSearch /\ IdleMigration /\ IdleIdsFetch /\ IdleDetail

DEFAULT_PAGESIZE == 100

NoParams == [hasSkip |-> FALSE, skip |-> 0, hasLimit |-> FALSE, limit |-> 0]

\* the mutant: pages counted from one
getSkipLimitParametersFromOne(pageSize, pageNum) ==
  LET ps == IF pageSize.given /\ pageSize.value > 0 THEN pageSize.value
            ELSE DEFAULT_PAGESIZE
  IN  IF pageNum.given /\ pageNum.value >= 1
      THEN [hasSkip |-> TRUE, skip |-> (pageNum.value - 1) * ps,
            hasLimit |-> TRUE, limit |-> ps]
      ELSE NoParams

\* getSkipLimitParameters: an argument not given is one whose value is
\* undefined
getSkipLimitParameters(pageSize, pageNum) ==
  LET ps == IF pageSize.given /\ pageSize.value > 0 THEN pageSize.value
            ELSE DEFAULT_PAGESIZE
  IN  IF pageNum.given /\ pageNum.value >= 0
      THEN [hasSkip |-> TRUE, skip |-> pageNum.value * ps,
            hasLimit |-> TRUE, limit |-> ps]
      ELSE NoParams

\* what a caller may send: nothing, or a number
PageSizes == (-1..MaxPage) \cup {10, DEFAULT_PAGESIZE, MAX_LIMIT, MAX_LIMIT + 1}

PageNums == -1..MaxPage

PageArgs(values) ==
  {[given |-> FALSE, value |-> 0]} \cup [given : {TRUE}, value : values]

\* how many records match the query of the listing
Totals == {0, 1, 25, MAX_LIMIT, MAX_LIMIT + 1}

\* the listing route computes its window
PageParams ==
  /\ page.pc = "request"
  /\ page' = [page EXCEPT !.pc = "query",
                          !.params = getSkipLimitParameters(page.pageSize, page.pageNum)]
  /\ UNCHANGED notPage

\* runDataQuery with that window: an absent skip or limit is undefined, and
\* so is replaced by 0 or MAX_LIMIT
PageQuery ==
  /\ page.pc = "query"
  /\ page' = [page EXCEPT !.pc = "done",
                          !.returned = Len(SkipLimit([i \in 1..page.total |-> i],
                                                     page.params.skip, page.params.limit))]
  /\ UNCHANGED notPage

InitPage ==
  /\ IdleButPage
  /\ page \in [pc : {"request"}, pageSize : PageArgs(PageSizes),
               pageNum : PageArgs(PageNums), params : {NoParams},
               total : Totals, returned : {0}]

NextPage == PageParams \/ PageQuery

SpecPage == InitPage /\ [][NextPage]_vars

----------------------------------------------------------------------------
(* api/helpers/utils.js : avScan                                           *)

notScan == <<coreVars, syncVars, page, search, migration, idsFetch, detail>>

IdleButScan == IdleCore /\ IdleSync /\ IdlePage /\ IdleSearch /\ IdleMigration /\ IdleIdsFetch /\ IdleDetail

\* the uploads scanned
Buffers == {"empty", "document", "archive"}

\* err of the clamav.ping callback: none, the 1000 ms timeout, or a
\* refused connection
PingErrors == {"", "timeout", "refused"}

\* the third argument of the scan callback: the name of what was found
Verdicts == {"", "Eicar-Test-Signature", "Win.Trojan"}

\* the mutant: the verdict is not looked at
scanCallbackIgnoringVerdict(err, malicious) == ~err

\* the scan callback: resolve(true) only past both tests
scanCallback(err, malicious) ==
  IF err THEN FALSE
  ELSE IF malicious # "" THEN FALSE
  ELSE TRUE

ResultOf(b) == IF b THEN "true" ELSE "false"

\* avScan(buffer) is called: the stream is made and the daemon pinged
avScan ==
  /\ scan.pc \in {"idle", "settled"}
  /\ scan.calls < MaxScans
  /\ \E buffer \in Buffers, pingErr \in PingErrors, scanErr \in BOOLEAN,
        malicious \in Verdicts :
       scan' = [NoScan EXCEPT !.pc = "ping", !.buffer = buffer,
                              !.pingErr = pingErr, !.scanErr = scanErr,
                              !.malicious = IF scanErr THEN "" ELSE malicious,
                              !.pings = 1, !.calls = scan.calls + 1]
  /\ UNCHANGED notScan

\* the callback of clamav.ping
clamavPing ==
  /\ scan.pc = "ping"
  /\ scan' = IF scan.pingErr # ""
             THEN [scan EXCEPT !.pc = "settled", !.result = ResultOf(FALSE)]
             ELSE [scan EXCEPT !.pc = "scan", !.scans = @ + 1]
  /\ UNCHANGED notScan

\* the callback of createScanner(...).scan
clamavScan ==
  /\ scan.pc = "scan"
  /\ scan' = [scan EXCEPT !.pc = "settled",
                          !.result = ResultOf(scanCallback(scan.scanErr, scan.malicious))]
  /\ UNCHANGED notScan

InitScan == IdleButScan /\ scan = NoScan

NextScan == avScan \/ clamavPing \/ clamavScan

SpecScan == InitScan /\ [][NextScan]_vars

----------------------------------------------------------------------------
(* api/controllers/search.js : protectedTTLSGetApplicationsByFileNumber    *)

notSearch == <<coreVars, syncVars, page, scan, migration, idsFetch, detail>>

IdleButSearch == IdleCore /\ IdleSync /\ IdlePage /\ IdleScan /\ IdleMigration /\ IdleIdsFetch /\ IdleDetail

\* DISPOSITION_TRANSACTION_SID of the search results
Disps == {111111, 222222, 333333}

NoError == [code |-> 0, message |-> ""]

\* what loginWebADE and the registry calls reject with: an error with a
\* code, with or without a message, or one with no code
Errors == {[code |-> 503, message |-> "Ooh boy something went wrong"],
           [code |-> 401, message |-> ""],
           [code |-> 0, message |-> "socket hang up"]}

\* the mutant: the newest detail is put first
collectFirst(allApps, appData) == <<appData>> \o allApps

\* allApps.push(appData)
collect(allApps, appData) == Append(allApps, appData)

\* .catch: Actions.sendResponse(res, null, err)
SearchFailed(err) ==
  [search EXCEPT !.pc = "answered", !.status = sendResponse(0, err.code),
                 !.error = err, !.responses = @ + 1]

\* Actions.sendResponse(res, 200, allApps)
SearchAnswered(sr, allApps) ==
  [sr EXCEPT !.pc = "answered", !.status = sendResponse(200, 0), !.body = allApps,
             !.responses = @ + 1]

\* the route is called: TTLSUtils.loginWebADE()
protectedTTLSGetApplicationsByFileNumber ==
  /\ search.pc = "idle"
  /\ search' = [search EXCEPT !.pc = "loginWebADE",
                              !.trace = Append(@, "loginWebADE")]
  /\ UNCHANGED notSearch

\* the login settles; on success getApplicationByFilenumber is called with
\* the token
searchLoginWebADE ==
  /\ search.pc = "loginWebADE"
  /\ \/ search' = [search EXCEPT !.pc = "getApplicationByFilenumber",
                                 !.accessToken = "ACCESS_TOKEN",
                                 !.trace = Append(@, "getApplicationByFilenumber"),
                                 !.calls = Append(@, [fn |-> "getApplicationByFilenumber",
                                                      token |-> "ACCESS_TOKEN",
                                                      arg |-> 555555])]
     \/ \E err \in Errors :
          search' = [SearchFailed(err) EXCEPT !.loginError = err]
  /\ UNCHANGED notSearch

\* the file-number search settles; the details are then fetched in a
\* chain of their own, started with the first disposition if there is one
searchGetApplicationByFilenumber ==
  /\ search.pc = "getApplicationByFilenumber"
  /\ \/ \E found \in SeqsUpTo(Disps, MaxDisps) :
          search' = IF found = <<>>
                    THEN SearchAnswered([search EXCEPT !.dispositions = found], <<>>)
                    ELSE [search EXCEPT !.pc = "nextDisposition",
                                        !.dispositions = found]
     \/ \E err \in Errors : search' = SearchFailed(err)
  /\ UNCHANGED notSearch

\* previousItem.then: getApplicationByDispositionID for the current item
searchNextDisposition ==
  /\ search.pc = "nextDisposition"
  /\ search' = [search EXCEPT
       !.pc = "getApplicationByDispositionID",
       !.pending = @ + 1,
       !.trace = Append(@, "getApplicationByDispositionID"),
       !.calls = Append(@, [fn |-> "getApplicationByDispositionID",
                            token |-> search.accessToken,
                            arg |-> search.dispositions[Len(search.allApps) + 1]])]
  /\ UNCHANGED notSearch

\* the detail call settles: its result, an application or none, is pushed;
\* past the last one the response is sent.  A rejection is that of a chain
\* the route did not return: nothing answers the request
searchGetApplicationByDispositionID ==
  /\ search.pc = "getApplicationByDispositionID"
  /\ LET disp == search.dispositions[Len(search.allApps) + 1]
     IN  \/ \E found \in BOOLEAN :
              LET all == collect(search.allApps, [disp |-> disp, found |-> found])
                  sr == [search EXCEPT !.pending = @ - 1, !.allApps = all]
              IN  search' = IF Len(all) = Len(search.dispositions)
                            THEN SearchAnswered(sr, all)
                            ELSE [sr EXCEPT !.pc = "nextDisposition"]
         \/ \E err \in Errors :
              search' = [search EXCEPT !.pc = "unanswered", !.pending = @ - 1,
                                       !.error = err]
  /\ UNCHANGED notSearch

InitSearch == IdleButSearch /\ search = NoSearch

NextSearch ==
  \/ protectedTTLSGetApplicationsByFileNumber
  \/ searchLoginWebADE
  \/ searchGetApplicationByFilenumber
  \/ searchNextDisposition
  \/ searchGetApplicationByDispositionID

SpecSearch == InitSearch /\ [][NextSearch]_vars

\* protectedTTLSGetApplicationByDisp is called: TTLSUtils.loginWebADE()
protectedTTLSGetApplicationByDisp ==
  /\ search.pc = "idle"
  /\ search' = [search EXCEPT !.pc = "dispLoginWebADE"]
  /\ UNCHANGED notSearch

\* the login settles; on success getApplicationByDispositionID is called
dispLoginWebADE ==
  /\ search.pc = "dispLoginWebADE"
  /\ \/ \E dtId \in Disps :
          search' = [search EXCEPT !.pc = "dispGetApplicationByDispositionID",
                                   !.accessToken = "ACCESS_TOKEN",
                                   !.dispositions = <<dtId>>]
     \/ \E err \in Errors : search' = SearchFailed(err)
  /\ UNCHANGED notSearch

\* the detail call settles.  With no application, reading
\* data.DISPOSITION_TRANSACTION_SID throws a TypeError inside .then, which
\* .catch answers
dispGetApplicationByDispositionID ==
  /\ search.pc = "dispGetApplicationByDispositionID"
  /\ \/ search' = SearchAnswered(search, <<[disp |-> search.dispositions[1],
                                            found |-> TRUE]>>)
     \/ search' = SearchFailed([code |-> 0, message |-> "TypeError"])
     \/ \E err \in Errors : search' = SearchFailed(err)
  /\ UNCHANGED notSearch

\* both search routes
NextRoutes ==
  \/ protectedTTLSGetApplicationsByFileNumber
  \/ searchLoginWebADE
  \/ searchGetApplicationByFilenumber
  \/ searchNextDisposition
  \/ searchGetApplicationByDispositionID
  \/ protectedTTLSGetApplicationByDisp
  \/ dispLoginWebADE
  \/ dispGetApplicationByDispositionID

\* a callback that is due is run
SpecRoutesLive == InitSearch /\ [][NextRoutes]_vars /\ WF_vars(NextRoutes)

----------------------------------------------------------------------------
(* data_migration/migrateGeometryToGeometryCollection.js                   *)

notMigration == <<coreVars, syncVars, page, scan, search, idsFetch, detail>>

IdleButMigration == IdleCore /\ IdleSync /\ IdlePage /\ IdleScan /\ IdleSearch /\ IdleIdsFetch /\ IdleDetail

\* a geometry in the old format, and one in the new
OldGeometries == [type : {"Polygon", "MultiPolygon"}, coordinates : {"c1", "c2"}]

NewGeometries ==
  { [type |-> "GeometryCollection", geometries |-> <<g>>] : g \in OldGeometries }

\* the mutant: every record with a geometry is taken
matchAnyGeometry(doc) == "type" \in DOMAIN doc.geometry

\* $match: { 'geometry.coordinates': { $exists: 1 } }
matchOldFormat(doc) == "coordinates" \in DOMAIN doc.geometry

\* $project: { 'geometry.type': 'GeometryCollection', oldGeometry: '$geometry' }
projectType(doc) ==
  [_id |-> doc._id, geometry |-> [type |-> "GeometryCollection"],
   oldGeometry |-> doc.geometry]

\* $addFields: { 'geometry.geometries': ['$oldGeometry'] }
addGeometries(doc) ==
  [_id |-> doc._id,
   geometry |-> [type |-> doc.geometry.type, geometries |-> <<doc.oldGeometry>>],
   oldGeometry |-> doc.oldGeometry]

\* $project: { oldGeometry: 0 }
dropOldGeometry(doc) == [_id |-> doc._id, geometry |-> doc.geometry]

\* db.features.aggregate([...])
aggregate(coll) ==
  LET matched == SelectSeq(coll, matchOldFormat)
  IN  [k \in DOMAIN matched |-> dropOldGeometry(addGeometries(projectType(matched[k])))]

\* db.features.update({ _id: element._id }, { $set: { geometry: element.geometry } })
update(coll, element) ==
  [k \in DOMAIN coll |->
     IF coll[k]._id = element._id
     THEN [coll[k] EXCEPT !.geometry = element.geometry] ELSE coll[k]]

\* the script is started: the aggregation is evaluated
MigrationAggregate ==
  /\ migration.pc \in {"idle", "done"}
  /\ migration.run < 2
  /\ migration' = [migration EXCEPT
       !.run = @ + 1,
       !.cursor = aggregate(migration.features),
       !.idx = 1,
       !.afterFirst = IF migration.run = 1 THEN migration.features ELSE @,
       !.pc = IF aggregate(migration.features) = <<>> THEN "done" ELSE "forEach"]
  /\ UNCHANGED notMigration

\* newGeometry.forEach: one update per result
MigrationUpdate ==
  /\ migration.pc = "forEach"
  /\ migration' = [migration EXCEPT
       !.features = update(@, migration.cursor[migration.idx]),
       !.idx = @ + 1,
       !.pc = IF migration.idx = Len(migration.cursor) THEN "done" ELSE "forEach"]
  /\ UNCHANGED notMigration

\* Features of either format, some migrated already
MigrationFeatures ==
  { s \in SeqsUpTo([_id : 1..MaxFeatures, geometry : OldGeometries \cup NewGeometries],
                   MaxFeatures) :
      \A i \in DOMAIN s : s[i]._id = i }

InitMigration ==
  /\ IdleButMigration
  /\ \E fs \in MigrationFeatures :
       migration = [NoMigration EXCEPT !.features = fs, !.original = fs]

NextMigration == MigrationAggregate \/ MigrationUpdate

SpecMigration == InitMigration /\ [][NextMigration]_vars

----------------------------------------------------------------------------
(* api/helpers/ttlsUtils.js : getAllApplicationIDs                         *)

notIdsFetch == <<coreVars, syncVars, page, scan, search, migration, detail>>

IdleButIdsFetch == IdleCore /\ IdleSync /\ IdlePage /\ IdleScan /\ IdleSearch /\ IdleMigration /\ IdleDetail

MaxRequests == 4

\* pageRowCount = 100
PageRowCount == 100

\* the registry's answer to a well-formed page request: the elements of
\* that page, 0 standing for a null element
RegistryPage(registry, pageNumber) ==
  SubSeq(registry, (pageNumber - 1) * PageRowCount + 1,
         IF pageNumber * PageRowCount < Len(registry)
         THEN pageNumber * PageRowCount ELSE Len(registry))

\* _.forEach(obj.elements, element => if (element) applicationIDs.push(...))
PushElements(applicationIDs, elements) ==
  applicationIDs \o SelectSeq(elements, LAMBDA element : element # 0)

\* exports.getAllApplicationIDs is called: the first page is requested
getAllApplicationIDs ==
  /\ idsFetch.pc = "idle"
  /\ idsFetch' = [idsFetch EXCEPT !.pc = "request", !.pageNumber = 1,
                                  !.outcome = "pending"]
  /\ UNCHANGED notIdsFetch

\* the callback of request.get and the .then after it. A page that fails
\* rejects the promise of internalGetAllApplicationIDs, which nobody handles
\* (try / catch around a promise): the promise of getAllApplicationIDs never
\* settles, and the runtime may end the process for the unhandled rejection
internalGetAllApplicationIDs ==
  /\ idsFetch.pc = "request"
  /\ LET asked == [idsFetch EXCEPT !.requested = Append(@, idsFetch.pageNumber)]
         ids == PushElements(idsFetch.applicationIDs,
                             RegistryPage(idsFetch.registry, idsFetch.pageNumber))
     IN  \/ \E end \in {"stalled", "crashed"} :
              idsFetch' = [asked EXCEPT !.pc = end, !.failed = TRUE]
         \/ /\ idsFetch.totalRowCount > Len(ids)
            /\ idsFetch.pageNumber < MaxRequests
            /\ idsFetch' = [asked EXCEPT !.applicationIDs = ids, !.pageNumber = @ + 1]
         \/ /\ ~(idsFetch.totalRowCount > Len(ids))
            /\ idsFetch' = [asked EXCEPT !.applicationIDs = ids, !.pc = "settled",
                                         !.outcome = "resolved", !.value = ids]
  /\ UNCHANGED notIdsFetch

\* the numbers of identifiers a registry may hold
RegistryTotals == {0, 1, PageRowCount - 1, PageRowCount, PageRowCount + 1,
                   2 * PageRowCount, 2 * PageRowCount + 1}

\* the registry holds the identifiers 1, 2, ... and reports their number;
\* its first element may be null
Registries ==
  { [i \in 1..n |-> IF i = 1 /\ hole THEN 0 ELSE i] :
      n \in RegistryTotals, hole \in BOOLEAN }

InitIdsFetch ==
  /\ IdleButIdsFetch
  /\ \E registry \in Registries :
       idsFetch = [NoIdsFetch EXCEPT !.registry = registry,
                                     !.totalRowCount = Len(registry)]

NextIdsFetch == getAllApplicationIDs \/ internalGetAllApplicationIDs

SpecIdsFetch == InitIdsFetch /\ [][NextIdsFetch]_vars

\* the event loop runs a callback that is due
SpecIdsFetchLive == SpecIdsFetch /\ WF_vars(NextIdsFetch)

----------------------------------------------------------------------------
(* api/helpers/ttlsUtils.js : getApplicationByDispositionID, the result    *)

notDetail == <<coreVars, syncVars, page, scan, search, migration, idsFetch>>

IdleButDetail == IdleCore /\ IdleSync /\ IdlePage /\ IdleScan /\ IdleSearch /\ IdleMigration /\ IdleIdsFetch

MaxParties == 2

\* areaInHectares as the registry sends it; "" when the field is missing
AreaTexts == {"", "0.5", "1.0", "2.0"}

\* parseFloat, in tenths of a hectare
parseFloat(text) ==
  CASE text = "0.5" -> 5
    [] text = "1.0" -> 10
    [] text = "2.0" -> 20

\* an interest parcel of the registry: whether it carries WKT geometry, its
\* declared area, and the number of GeoJSON geometries its WKT converts into
InterestParcels == [wktGeometry : BOOLEAN, areaInHectares : AreaTexts,
                    geometries : {1, 2}]

\* the interested parties of the registry
InterestedParties ==
  { [interestedPartyType |-> "I", firstName |-> "Ann", lastName |-> "Lee",
     legalName |-> "", divisionBranch |-> ""],
    [interestedPartyType |-> "O", firstName |-> "", lastName |-> "",
     legalName |-> "Acme", divisionBranch |-> "North"],
    [interestedPartyType |-> "O", firstName |-> "", lastName |-> "",
     legalName |-> "Acme", divisionBranch |-> "South"] }

\* geometryArray.forEach(geometry => application.parcels.push({ ...,
\* properties: feature })): one parcel of the result per geometry
ParcelsOf(geo) ==
  IF geo.wktGeometry
  THEN [g \in 1..geo.geometries |->
          [TENURE_AREA_IN_HECTARES |-> geo.areaInHectares, geometry |-> g]]
  ELSE <<>>

RECURSIVE convertParcels(_)
convertParcels(interestParcels) ==
  IF interestParcels = <<>> THEN <<>>
  ELSE ParcelsOf(Head(interestParcels)) \o convertParcels(Tail(interestParcels))

\* application.areaHectares = 0.0, then += parseFloat(...) for every parcel
\* of the result with a truthy TENURE_AREA_IN_HECTARES
RECURSIVE sumAreaHectares(_)
sumAreaHectares(parcels) ==
  IF parcels = <<>> THEN 0
  ELSE (IF Head(parcels).TENURE_AREA_IN_HECTARES # ""
        THEN parseFloat(Head(parcels).TENURE_AREA_IN_HECTARES) ELSE 0)
       + sumAreaHectares(Tail(parcels))

\* _.includes(array, partyObj): SameValueZero, which for objects is identity;
\* ref tells the objects apart
includes(array, partyObj) == \E i \in DOMAIN array : array[i].ref = partyObj.ref

\* the loop over obj.interestedParties: partyObj is a new object each time
RECURSIVE addParties(_, _, _)
addParties(parties, k, result) ==
  IF k > Len(parties) THEN result
  ELSE LET partyObj == [ref |-> k, party |-> parties[k]]
       IN  addParties(parties, k + 1,
                      IF ~includes(result, partyObj) THEN Append(result, partyObj)
                      ELSE result)

\* the callback of request.get
detailGetApplicationByDispositionID ==
  /\ detail.pc = "request"
  /\ \/ detail' = [detail EXCEPT !.pc = "rejected"]
     \/ LET parcels == convertParcels(detail.obj.interestParcels)
        IN  detail' = [detail EXCEPT
                         !.pc = "resolved",
                         !.parcels = parcels,
                         !.areaHectares = sumAreaHectares(parcels),
                         !.interestedParties =
                            addParties(detail.obj.interestedParties, 1, <<>>)]
  /\ UNCHANGED notDetail

DetailRequest ==
  /\ detail.pc = "idle"
  /\ detail' = [detail EXCEPT !.pc = "request"]
  /\ UNCHANGED notDetail

InitDetail ==
  /\ IdleButDetail
  /\ \E ps \in SeqsUpTo(InterestParcels, MaxParcels),
        ips \in SeqsUpTo(InterestedParties, MaxParties) :
       detail = [NoDetail EXCEPT !.obj = [interestParcels |-> ps,
                                          interestedParties |-> ips]]

NextDetail == DetailRequest \/ detailGetApplicationByDispositionID

SpecDetail == InitDetail /\ [][NextDetail]_vars

----------------------------------------------------------------------------
(* C1 : runDataQuery returns exactly the matching, visible records         *)

\* a record is visible to role set R iff one of its tag-groups lies within R
VisibleTo(r, R) == \E g \in Range(r.tags) : \A x \in Range(g) : x \in R

ReturnedIds == { qResult[i]._id : i \in DOMAIN qResult }

WholeResult == qArgs.called /\ qArgs.skip = 0 /\ qArgs.limit = 0

\* C1: a runDataQuery call without a page window returns exactly the records
\* that satisfy the match query and have a tag-group that is a subset of the
\* caller's roles, each once and in stored order; a {public} caller gets the
\* records with a [public] group and none tagged only [sysadmin]; a
\* {sysadmin, public} caller gets every non-deleted record that has a
\* tag-group; a soft-deleted record is never returned.
C1_QueryReturnsVisible ==
  WholeResult =>
    /\ ReturnedIds = { r._id : r \in { x \in Range(store) :
                         Matches(x, qArgs.query) /\ VisibleTo(x, qArgs.role) } }
    /\ \A i, j \in DOMAIN qResult : i < j => qResult[i]._id < qResult[j]._id
    /\ \A i \in DOMAIN qResult : qResult[i].tags = store[qResult[i]._id].tags
    /\ \A r \in Range(store) : r.isDeleted => r._id \notin ReturnedIds
    /\ qArgs.role = {"public"} /\ qArgs.query._id = 0 =>
         \A r \in Range(store) :
           /\ (~r.isDeleted /\ <<"public">> \in Range(r.tags)) => r._id \in ReturnedIds
           /\ r.tags = <<<<"sysadmin">>>> => r._id \notin ReturnedIds
    /\ qArgs.role = {"sysadmin", "public"} /\ qArgs.query._id = 0 =>
         \A r \in Range(store) :
           (~r.isDeleted /\ r.tags # <<>>) => r._id \in ReturnedIds

\* a {public} caller is refused a [sysadmin]-only record and a deleted
\* published one, and is given a published one
C1_Witness ==
  /\ WholeResult
  /\ qArgs.role = {"public"}
  /\ qArgs.query._id = 0
  /\ store[1].tags = <<<<"public">>, <<"sysadmin">>>> /\ store[1].isDeleted
  /\ store[2].tags = <<<<"public">>>> /\ ~store[2].isDeleted
  /\ ReturnedIds = {2}

----------------------------------------------------------------------------
(* C3 - C6 : publish, unPublish and delete                                 *)

\* the stored record the last request named
Stored == store[findOne(last.objId)]

HasPublic(tags) == \E i \in DOMAIN tags : tags[i] = <<"public">>

NumPublic(tags) == Cardinality({ i \in DOMAIN tags : tags[i] = <<"public">> })

OtherGroups(tags) == SelectSeq(tags, LAMBDA g : g # <<"public">>)

Conflict(message) ==
  /\ last.outcome = "reject"
  /\ last.code = 409
  /\ last.message = message
  /\ ~last.saveCalled
  /\ Stored = last.pre
  /\ last.status = 409

\* C3: publish of a record that has a [public] group and unPublish of one
\* that has none reject with 409 and their message, call no save, leave the
\* record as it was, and the route answers HTTP 409.
C3_DoubleIsConflict ==
  /\ (last.op = "publish" /\ last.pre # NoRecord /\ HasPublic(last.pre.tags))
       => Conflict("Object already published")
  /\ (last.op = "unPublish" /\ last.pre # NoRecord /\ ~HasPublic(last.pre.tags))
       => Conflict("Object already unpublished")

C3_Witness ==
  /\ last.op = "unPublish"
  /\ last.pre.tags = <<<<"sysadmin">>>>
  /\ last.status = 409
  /\ last.message = "Object already unpublished"

\* C4: a publish that resolves has appended exactly one [public] group, an
\* unPublish that resolves has removed every [public] group; the other
\* groups, their order and isDeleted are as before, and the call resolved
\* with the saved record.
C4_FrameOfPublish ==
  /\ (last.op = "publish" /\ last.outcome = "resolve") =>
       /\ Len(Stored.tags) = Len(last.pre.tags) + 1
       /\ SubSeq(Stored.tags, 1, Len(last.pre.tags)) = last.pre.tags
       /\ Stored.tags[Len(Stored.tags)] = <<"public">>
       /\ NumPublic(Stored.tags) = 1
  /\ (last.op = "unPublish" /\ last.outcome = "resolve") =>
       /\ NumPublic(Stored.tags) = 0
       /\ Len(Stored.tags) = Len(last.pre.tags) - NumPublic(last.pre.tags)
  /\ (last.op \in {"publish", "unPublish"} /\ last.outcome = "resolve") =>
       /\ OtherGroups(Stored.tags) = OtherGroups(last.pre.tags)
       /\ Stored.isDeleted = last.pre.isDeleted
       /\ Stored._id = last.pre._id
       /\ last.body = Stored
       /\ last.status = 200

C4_Witness ==
  /\ last.op = "unPublish"
  /\ last.outcome = "resolve"
  /\ last.pre.tags = <<<<"public">>, <<"sysadmin">>, <<"public">>>>
  /\ Stored.tags = <<<<"sysadmin">>>>

\* C5: delete always calls save, and unless the save fails it resolves with
\* every [public] group removed and isDeleted true, whatever the record was;
\* it is never refused as a conflict, and a second delete changes nothing.
C5_DeleteIdempotent ==
  last.op = "delete" /\ last.pre # NoRecord =>
    /\ last.saveCalled
    /\ last.code # 409
    /\ last.outcome = "reject" => last.code = 400 /\ Stored = last.pre
    /\ last.outcome = "resolve" =>
         /\ ~HasPublic(Stored.tags)
         /\ Stored.isDeleted
         /\ (last.pre.isDeleted /\ ~HasPublic(last.pre.tags)) => Stored = last.pre

\* a delete of an already deleted, unpublished record resolves
C5_Witness ==
  /\ last.op = "delete"
  /\ last.outcome = "resolve"
  /\ last.pre.isDeleted
  /\ ~HasPublic(last.pre.tags)
  /\ last.pre.tags # <<>>

\* C6 as stated: after a delete the record is still stored, has no
\* tag-group at all and is flagged deleted.
C6_DeleteClearsAllTags ==
  last.op = "delete" /\ last.outcome = "resolve" =>
    /\ findOne(last.objId) # 0
    /\ Stored.tags = <<>>
    /\ Stored.isDeleted

\* C6 amended: after a delete the record is still stored and flagged
\* deleted, and has lost its [public] groups only: every other tag-group is
\* kept, in order.
C6_DeleteKeepsOtherTags ==
  /\ Len(store) = 1
  /\ last.op = "delete" /\ last.outcome = "resolve" =>
       /\ findOne(last.objId) # 0
       /\ Stored._id = last.objId
       /\ Stored.isDeleted
       /\ Stored.tags = OtherGroups(last.pre.tags)

C6_Witness ==
  /\ last.op = "delete"
  /\ last.outcome = "resolve"
  /\ last.pre.tags = <<<<"sysadmin">>, <<"public">>>>
  /\ Stored.tags = <<<<"sysadmin">>>>
  /\ Stored.isDeleted

----------------------------------------------------------------------------
(* C2 : created and updated records stay sysadmin-only                     *)

\* C2: after any create and update requests on CommentPeriod and Decision
\* records, with any `tags` in the bodies, every stored record has the
\* tag-groups [[sysadmin]].
C2_TagsStaySysadmin ==
  \A i \in DOMAIN cpStore : cpStore[i].tags = <<<<"sysadmin">>>>

\* an update that carried tags [[public],[sysadmin]] was applied to a record
C2_Witness ==
  /\ cpLast.op = "put"
  /\ cpLast.status = 200
  /\ cpLast.hasTags
  /\ cpLast.tags = <<<<"public">>, <<"sysadmin">>>>
  /\ cpStore[cpLast.objId].name = "hacker_man"
  /\ cpStore[cpLast.objId].kind = "Decision"

----------------------------------------------------------------------------
(* C7, C8 : verifyToken                                                    *)

\* C7: auth_payload is set, and the callback told of no error, only when the
\* header has the Bearer prefix, the signature and expiry check passed, the
\* required scopes are a non-empty list, one of them is among the token's
\* roles and the issuer is the configured one.
C7_SuccessOnlyIfAll ==
  (authOut.auth_payload \/ authOut.callbackArg = "null") =>
    /\ authReq.header = "bearer"
    /\ authReq.verifyOk
    /\ authReq.scopesIsArray
    /\ authReq.scopes # <<>>
    /\ \E i \in DOMAIN authReq.scopes, j \in DOMAIN authReq.roles :
         authReq.scopes[i] = authReq.roles[j]
    /\ authReq.iss = "https://dev.oidc.gov.bc.ca/auth/realms/prc"
    /\ authOut.auth_payload
    /\ authOut.callbackArg = "null"
    /\ authOut.status = 0

C7_Witness ==
  /\ authPc = "done"
  /\ authOut.auth_payload
  /\ authReq.keycloak
  /\ authReq.scopes = <<"sysadmin", "public">>
  /\ authReq.roles = <<"public">>

\* C8 as stated: every verifyToken call that does not succeed has produced a
\* 403 with the message 'Error: Access Denied' and called the callback
\* exactly once with it, and has not thrown.
C8_EveryFailureIs403 ==
  (authPc = "done" /\ ~authOut.auth_payload) =>
    /\ authOut.status = 403
    /\ authOut.message = "Error: Access Denied"
    /\ authOut.callbacks = 1
    /\ authOut.callbackArg = "denied"
    /\ ~authOut.thrown

----------------------------------------------------------------------------
(* C9, C10 : the Features of a refreshed Application                       *)

\* the refresh under observation
TheRefresh == refresh[1]

OwnedFeatures == FeaturesOf(features, TheRefresh.app)

\* a Feature without its identifier
Shape(f) == [applicationID |-> f.applicationID, parcel |-> f.parcel, tags |-> f.tags]

\* the Features rebuilt from the first k registry parcels, without identifiers
Rebuilt(k) ==
  [i \in 1..k |-> Shape(newFeature(0, TheRefresh.app, TheRefresh.parcels[i]))]

\* fs holds exactly the Features rebuilt from all the registry parcels, and
\* none the Application owned before
IsNewSet(fs) ==
  /\ [i \in DOMAIN fs |-> Shape(fs[i])] = Rebuilt(Len(TheRefresh.parcels))
  /\ \A i \in DOMAIN fs : \A j \in DOMAIN TheRefresh.old :
       fs[i]._id # TheRefresh.old[j]._id

\* C9 as stated: after a successful updateApplication for an Application
\* whose registry record exists, the Features it owns are exactly those
\* rebuilt from the registry parcels, and every Feature it owned before has
\* been deleted.
C9_RefreshReplacesFeatures ==
  (TheRefresh.pc = "settled" /\ TheRefresh.outcome = "resolved" /\ TheRefresh.found)
    => IsNewSet(OwnedFeatures)

\* C10 as stated: after a refresh in which a step fails, the Features the
\* Application owns are either the complete old set or the complete new set.
C10_ReplacedAtomically ==
  TheRefresh.failed # "none" =>
    \/ OwnedFeatures = TheRefresh.old
    \/ IsNewSet(OwnedFeatures)

\* what the deletion step has left of the old Features when the refresh failed
KeptAtFailure ==
  IF TheRefresh.failed \in {"saveFeature", "updateApplicationMeta"}
  THEN IF TheRefresh.old = <<>> THEN <<>> ELSE Tail(TheRefresh.old)
  ELSE TheRefresh.old

\* how many Features had been created when the refresh failed
CreatedAtFailure ==
  CASE TheRefresh.failed = "saveFeature" -> TheRefresh.idx - 1
    [] TheRefresh.failed = "updateApplicationMeta" -> Len(TheRefresh.parcels)
    [] OTHER -> 0

\* C10, amended: after a refresh in which a step fails, the Features the
\* Application owns are those the deletion step left, followed by one new
\* Feature for each parcel saved before the failure, in parcel order.
C10_FailedRefreshLeavesPrefix ==
  TheRefresh.failed # "none" =>
    /\ Len(OwnedFeatures) = Len(KeptAtFailure) + CreatedAtFailure
    /\ SubSeq(OwnedFeatures, 1, Len(KeptAtFailure)) = KeptAtFailure
    /\ [i \in 1..CreatedAtFailure |-> Shape(OwnedFeatures[Len(KeptAtFailure) + i])]
         = Rebuilt(CreatedAtFailure)

\* the second of two parcels could not be saved, after the deletion step had
\* run on an Application that owned two Features
C10_Witness ==
  /\ TheRefresh.failed = "saveFeature"
  /\ TheRefresh.pc = "hung"
  /\ TheRefresh.idx = 2
  /\ Len(TheRefresh.parcels) = 2
  /\ Len(TheRefresh.old) = 2
  /\ Len(OwnedFeatures) = 2

----------------------------------------------------------------------------
(* C11, C12, C13 : the synchronization job                                 *)

\* the Applications the retirement sweep is about
RetiredAndListed(a) == a.retired /\ ~a.isDeleted

\* C11 as stated: when a run of the job ends successfully, every
\* non-deleted Application with a retired status, an old enough status
\* date and a [public] tag-group at sweep time has been unpublished,
\* whatever the number of such Applications.
C11_SweepUnpublishesAll ==
  sync.pc = "done" =>
    \A i \in DOMAIN apps.recs :
      RetiredAndListed(apps.recs[i]) => ~isPublished(apps.recs[i])

\* C12: the sweep submits an unpublish call only for Applications that are
\* published on the fetched record and at the time of the call, each at
\* most once per run, and no call of the sweep is answered 409; this holds
\* in a run restarted after a failure too.
C12_SweepSubmitsPublishedOnce ==
  /\ \A k \in DOMAIN sync.toUnpublish : isPublished(sync.toUnpublish[k])
  /\ \A k \in DOMAIN sync.calls :
       /\ sync.calls[k].wasPublished
       /\ sync.calls[k].status # 409
       /\ sync.calls[k].id = sync.toUnpublish[k]._id
       /\ \A j \in DOMAIN sync.calls : j # k => sync.calls[j].id # sync.calls[k].id

\* in a run after an earlier one, the sweep has ended with one call, for
\* the second Application, while the first is retired and already
\* unpublished
C12_Witness ==
  /\ sync.rerun
  /\ sync.pc = "loginWebADE"
  /\ Len(sync.calls) = 1
  /\ sync.calls[1].id = 2
  /\ sync.calls[1].status = 200
  /\ Len(apps.recs) = 2
  /\ RetiredAndListed(apps.recs[1])
  /\ ~isPublished(apps.recs[1])

\* C13 as stated: a failure of any step of the job eventually leads to the
\* process exiting with a non-zero status.
C13_FailureLeadsToExit1 ==
  (sync.failed # "none") ~> (sync.exit = "1")

----------------------------------------------------------------------------
(* C14 : routes called with the identifier of no record                    *)

\* some request has been answered, and it named no stored record
NamedNoRecord == last.op # "none" /\ findOne(last.objId) = 0

----------------------------------------------------------------------------
(* C15, C16 : paging                                                       *)

\* the page size in force
EffectivePageSize ==
  IF page.pageSize.given /\ page.pageSize.value > 0 THEN page.pageSize.value ELSE 100

\* C15: with ps the supplied page size when it is > 0 and 100 otherwise, a
\* supplied page number n >= 0 yields skip = n * ps and limit = ps; with no
\* page number, or a negative one, neither skip nor limit is returned.
C15_SkipLimitParameters ==
  page.pc \in {"query", "done"} =>
    IF page.pageNum.given /\ page.pageNum.value >= 0
    THEN /\ page.params.hasSkip /\ page.params.hasLimit
         /\ page.params.skip = page.pageNum.value * EffectivePageSize
         /\ page.params.limit = EffectivePageSize
    ELSE ~page.params.hasSkip /\ ~page.params.hasLimit

\* page 2 with size 10 gave skip 20, limit 10
C15_Witness ==
  /\ page.pc = "query"
  /\ page.pageSize = [given |-> TRUE, value |-> 10]
  /\ page.pageNum = [given |-> TRUE, value |-> 2]
  /\ page.params = [hasSkip |-> TRUE, skip |-> 20, hasLimit |-> TRUE, limit |-> 10]

\* C16 as stated: runDataQuery returns at most MAX_LIMIT records for every
\* combination of page size and page number.
C16_NeverMoreThanMaxLimit ==
  page.pc = "done" => page.returned <= 1000

----------------------------------------------------------------------------
(* C17 : avScan                                                            *)

\* C17: the promise of avScan never rejects; it resolves true only when the
\* liveness probe succeeded and the scan returned neither an error nor a
\* malicious verdict, and false when the daemon is unreachable, the scan
\* errs or the verdict is malicious; one probe and at most one scan are
\* made per call.
C17_ScanFailsClosed ==
  /\ scan.result \in {"none", "true", "false"}
  /\ scan.pc = "settled" <=> scan.result # "none"
  /\ scan.result = "true" =>
       scan.pingErr = "" /\ ~scan.scanErr /\ scan.malicious = ""
  /\ (scan.pc = "settled" /\ (scan.pingErr # "" \/ scan.scanErr \/ scan.malicious # ""))
       => scan.result = "false"
  /\ scan.pc # "idle" => scan.pings = 1
  /\ scan.scans <= 1
  /\ (scan.pc = "settled" /\ scan.pingErr # "") => scan.scans = 0

\* a reachable daemon found something in an upload
C17_Witness ==
  /\ scan.pc = "settled"
  /\ scan.pingErr = ""
  /\ scan.malicious = "Eicar-Test-Signature"
  /\ scan.scans = 1
  /\ scan.result = "false"

----------------------------------------------------------------------------
(* C18 : the crown-land-file-number search route                           *)

\* the registry calls the route has to make for the dispositions found
ExpectedCalls ==
  <<[fn |-> "getApplicationByFilenumber", token |-> "ACCESS_TOKEN", arg |-> 555555]>>
  \o [k \in DOMAIN search.dispositions |->
        [fn |-> "getApplicationByDispositionID", token |-> "ACCESS_TOKEN",
         arg |-> search.dispositions[k]]]

IsPrefix(s, t) == Len(s) <= Len(t) /\ SubSeq(t, 1, Len(s)) = s

----------------------------------------------------------------------------
(* C19 : the geometry migration                                            *)

\* the geometry as the migration has to leave it
Migrated(g) ==
  IF "coordinates" \in DOMAIN g
  THEN [type |-> "GeometryCollection", geometries |-> <<g>>]
  ELSE g

RunEnded(n) == migration.run = n /\ migration.pc = "done"

\* C19: one run rewrites the geometry of every Feature that has a top-level
\* coordinates field to a GeometryCollection holding the original geometry
\* alone, and touches no other Feature; a second run on the result matches
\* no record and changes nothing.
C19_MigrationIdempotent ==
  /\ (RunEnded(1) \/ migration.run = 2) =>
       /\ Len(migration.features) = Len(migration.original)
       /\ \A i \in DOMAIN migration.features :
            /\ migration.features[i]._id = migration.original[i]._id
            /\ migration.features[i].geometry = Migrated(migration.original[i].geometry)
  /\ migration.run = 2 =>
       /\ migration.cursor = <<>>
       /\ migration.features = migration.afterFirst

\* the second run has ended on a collection whose first Feature was in the
\* old format and whose second was migrated already
C19_Witness ==
  /\ RunEnded(2)
  /\ Len(migration.original) = 2
  /\ migration.original[1].geometry = [type |-> "Polygon", coordinates |-> "c1"]
  /\ migration.original[2].geometry \in NewGeometries
  /\ migration.features[1].geometry =
       [type |-> "GeometryCollection",
        geometries |-> <<[type |-> "Polygon", coordinates |-> "c1"]>>]

----------------------------------------------------------------------------
(* C20 : the order of the store operations of one updateApplication        *)

\* C20: within one updateApplication invocation a Feature is deleted only
\* by the deletion step, before any Feature is created; Features are
\* created one at a time, in parcel order, after the deletion; the
\* Application is updated only after the last Feature was created; and
\* when the registry returns no application nothing is deleted, created or
\* updated.
C20_StoreOpsOrdered ==
  [][LET r == refresh[1]
     IN  /\ Len(features') < Len(features) =>
              /\ r.pc = "deleteAllApplicationFeatures"
              /\ r.idx = 0
              /\ featureIds' = featureIds
         /\ featureIds' # featureIds =>
              /\ r.pc = "saveFeature"
              /\ r.idx \in 1..Len(r.parcels)
              /\ refresh'[1].idx = r.idx + 1
              /\ featureIds' = featureIds + 1
              /\ features' = Append(features,
                   newFeature(featureIds + 1, r.app, r.parcels[r.idx]))
         /\ appMeta' # appMeta =>
              /\ r.pc = "updateApplicationMeta"
              /\ r.idx = Len(r.parcels) + 1
              /\ features' = features
         /\ (refresh'[1].pc = "settled" /\ ~refresh'[1].found) =>
              /\ features' = features
              /\ FeaturesOf(features', refresh'[1].app) = refresh'[1].old
              /\ appMeta' = appMeta
              /\ appMeta'[refresh'[1].app] = "stale"]_vars

\* a refresh has gone through: one Feature deleted, two created, then the
\* Application updated
C20_Witness ==
  /\ TheRefresh.pc = "settled"
  /\ TheRefresh.outcome = "resolved"
  /\ TheRefresh.found
  /\ Len(TheRefresh.parcels) = 2
  /\ Len(TheRefresh.old) = 1
  /\ Len(OwnedFeatures) = 2
  /\ appMeta[TheRefresh.app] = "fresh"

----------------------------------------------------------------------------
(* C21: refreshes of one Application are not serialized                    *)

Between(p, q) ==
  /\ refresh[p].pc = "saveFeature"
  /\ refresh[q].pc = "deleteAllApplicationFeatures"
  /\ refresh[p].app = refresh[q].app

\* C21: while one updateApplication invocation is between its deletion and
\* the end of its creations, the deletion of a second invocation for the
\* same Application is free to run: nothing serializes the two
C21_RefreshesNotSerialized ==
  \A p, q \in Procs :
     p # q /\ Between(p, q) => ENABLED deleteAllApplicationFeatures(q)

RegistrySet(p) == { refresh[p].parcels[i] : i \in DOMAIN refresh[p].parcels }

StoredParcels(app) ==
  [i \in DOMAIN FeaturesOf(features, app) |-> FeaturesOf(features, app)[i].parcel]

\* both invocations resolved after fetching one and the same parcel, at most
\* one Feature was stored before, and the parcel is now stored twice: run
\* one after the other each invocation would have deleted the single Feature
\* it found, so both deletions ran before either creation
C21_Witness ==
  /\ \A p \in Procs : /\ refresh[p].pc = "settled"
                       /\ refresh[p].outcome = "resolved"
                       /\ refresh[p].app = RaceApp
                       /\ refresh[p].found
                       /\ Len(refresh[p].parcels) = 1
                       /\ Len(refresh[p].old) <= 1
  /\ Len(StoredParcels(RaceApp)) = 2
  /\ StoredParcels(RaceApp)[1] = StoredParcels(RaceApp)[2]
  /\ Cardinality(RegistrySet(1)) = 1
----------------------------------------------------------------------------
(* C22 : the login token is renewed before it expires                      *)

\* the check made for the k-th refresh call of the run
CheckedFresh(k) ==
  /\ sync.checks[k].left >= RenewMargin
  /\ ~sync.checks[k].renewed
  /\ sync.refreshed[k].token = sync.checks[k].token

CheckedStale(k) ==
  /\ sync.checks[k].left < RenewMargin
  /\ sync.checks[k].renewed
  /\ sync.refreshed[k].token = sync.checks[k].token + 1

\* C22: every refresh call follows a check of the token's age made for it;
\* when the checked token had 60 seconds or more left the call carries it,
\* when it had less the call carries the token of a login made after the
\* check, and after such a login the countdown starts again from zero with
\* the new expiry.
C22_TokenRenewedBeforeCall ==
  /\ Len(sync.refreshed) <= Len(sync.checks)
  /\ Len(sync.checks) <= Len(sync.refreshed) + 1
  /\ \A k \in DOMAIN sync.refreshed : CheckedFresh(k) \/ CheckedStale(k)
  /\ ( /\ sync.pc = "updateACRFDApplication"
       /\ sync.checks[Len(sync.checks)].renewed )
     => /\ sync.age = 0
        /\ sync.jwt_login = sync.checks[Len(sync.checks)].token + 1
        /\ sync.jwt_expiry \in Lifetimes

\* the run has issued two refresh calls: the first with the token of the
\* first login, which had exactly 60 seconds left, the second with a new
\* token because the first had 30 seconds left
C22_Witness ==
  /\ Len(sync.refreshed) = 2
  /\ sync.checks[1].left = RenewMargin
  /\ sync.refreshed[1].token = 1
  /\ sync.checks[2].left = 30
  /\ sync.refreshed[2].token = 2
----------------------------------------------------------------------------
(* C23 : what the synchronization job refreshes                            *)

\* the non-deleted local Applications whose registry identifier is in the
\* changed-identifier set, in stored order
ChangedLocal == IdsAmong(SelectSeq(AllApps, NotDeletedMatch), sync.recent)

RefreshedIds == [k \in DOMAIN sync.refreshed |-> sync.refreshed[k].id]

\* C23 as stated: when the refresh loop has ended, the refresh calls issued
\* are exactly those for the non-deleted local Applications whose registry
\* identifier is in the changed-identifier set, one call each, in order.
C23_RefreshesExactlyChanged ==
  sync.pc = "done" => RefreshedIds = ChangedLocal
----------------------------------------------------------------------------
(* C24 : getAllApplicationIDs                                              *)

\* C24 as stated: a failed page request makes getAllApplicationIDs reject.
C24_FailedPageRejects ==
  idsFetch.failed ~> (idsFetch.outcome = "rejected")
----------------------------------------------------------------------------
(* C25, C26 : the result of getApplicationByDispositionID                  *)

\* the sum of the declared areas of the registry's interest parcels with
\* WKT geometry, each parcel once, a missing area counting 0
RECURSIVE DeclaredArea(_)
DeclaredArea(interestParcels) ==
  IF interestParcels = <<>> THEN 0
  ELSE (IF Head(interestParcels).wktGeometry /\ Head(interestParcels).areaInHectares # ""
        THEN parseFloat(Head(interestParcels).areaInHectares) ELSE 0)
       + DeclaredArea(Tail(interestParcels))

\* C25 as stated: the areaHectares of the result is the sum of the declared
\* areas of the registry's interest parcels with WKT geometry, each registry
\* parcel counted once also when its geometry converts into several GeoJSON
\* geometries, a missing area contributing 0.
C25_AreaIsSumOfParcels ==
  detail.pc = "resolved" =>
    detail.areaHectares = DeclaredArea(detail.obj.interestParcels)

\* the parties of a list without the later occurrences of a party
FirstOccurrences(parties) ==
  LET keep == { k \in DOMAIN parties : \A j \in 1..(k - 1) : parties[j] # parties[k] }
      pick[n \in 0..Len(parties)] ==
        IF n = 0 THEN <<>>
        ELSE IF n \in keep THEN Append(pick[n - 1], parties[n]) ELSE pick[n - 1]
  IN  pick[Len(parties)]

ResultParties ==
  [k \in DOMAIN detail.interestedParties |-> detail.interestedParties[k].party]

\* C26 as stated: the interestedParties of the result hold each party of the
\* registry once, in the order of its first occurrence.
C26_PartiesDeduplicated ==
  detail.pc = "resolved" =>
    ResultParties = FirstOccurrences(detail.obj.interestedParties)
----------------------------------------------------------------------------
(* C27 : soft-deleted records                                              *)

DeletedIsUnpublished == \A i \in DOMAIN store : store[i].isDeleted => ~HasPublic(store[i].tags)

DeletedStaysDeleted ==
  \A i \in DOMAIN store : store[i].isDeleted => i \in DOMAIN store' /\ store'[i].isDeleted

\* C27 as stated: after any sequence of publish, unPublish and delete
\* operations a record whose isDeleted flag is true has no [public]
\* tag-group, and isDeleted once true is never reset to false.
C27_DeletedNeverPublished == []DeletedIsUnpublished /\ [][DeletedStaysDeleted]_vars
----------------------------------------------------------------------------
(* C28 : updateApplication settles                                         *)

\* C28 as stated: every updateApplication invocation eventually settles,
\* with a rejection when a store operation of it has failed.
C28_RefreshSettles ==
  /\ (TheRefresh.outcome = "pending") ~> (TheRefresh.pc = "settled")
  /\ (TheRefresh.failed # "none") ~> (TheRefresh.outcome = "rejected")
----------------------------------------------------------------------------
(* C29 : the search routes answer                                          *)

\* C29 as stated: every request to the two search routes eventually
\* receives exactly one response, whatever fails on the way.
C29_EveryRequestAnswered ==
  /\ [](search.responses <= 1)
  /\ (search.pc # "idle") ~> (search.responses = 1)
----------------------------------------------------------------------------
(* C30 : a replace-with-upload request that ends in an error                *)

UpdateFailedWith(status) == last'.op = "update" /\ last'.status = status

\* C30 as stated: a replace-with-upload request answered 404 has added no
\* file to the upload directory, one answered 400 has modified no Document,
\* and in every case the tag-groups of the Documents are unchanged.
C30_FailedUpdateLeavesNoTrace ==
  [][/\ UpdateFailedWith(404) => ~last'.written /\ store' = store
     /\ UpdateFailedWith(400) => ~last'.written /\ store' = store
     /\ last'.op = "update" =>
          \A i \in DOMAIN store : i \in DOMAIN store' /\ store'[i].tags = store[i].tags]_vars
====

